---- MODULE Spec2Model ----
(***************************************************************************)
(* comprehensible-wsdl: the import resolver (load.js), the tree normaliser *)
(* (model.js), the reference resolver (resolve.js), the page renderer      *)
(* (render.js), the command line (cli.js) and the helpers they use         *)
(* (util.js), as a state machine.  Spec is one resolution, PairSpec two    *)
(* resolutions in one process, DocSpec the pipeline from a parsed tree to  *)
(* the page, CliSpec one run of the command line.                          *)
(*                                                                         *)
(* A JS string that names a location is a record [kind, segs]: kind says   *)
(* how the string starts ("url": http:// or https://, "abs": "/", "rel":   *)
(* anything else, "none": attribute absent or empty) and segs are the      *)
(* "/"-separated segments after the scheme.  A raw tree node is a record   *)
(* whose fields are the node's children and attributes; a child that is    *)
(* absent is the empty sequence, which is what arr() makes of it.          *)
(***************************************************************************)
EXTENDS Naturals, Sequences, FiniteSets, TLC

VARIABLES
  status,    \* "idle" | "fetching" | "done" | "failed": the promise loadWsdl returned
  visited,   \* the Set created by loadWsdl and passed to every recursive call
  stack,     \* pending async calls, innermost last
  pending,   \* the fetchSource call being awaited: <<>> or <<[loc, how, text]>>
  result,    \* <<>> or <<raw>>: the value the promise resolved with
  error,     \* <<>> or <<[kind, loc]>>: the value the promise rejected with
  fs,        \* the documents behind the locations read so far
  budget,    \* import directives the environment may still put into documents
  fetched,   \* history: the locations fetchSource was called with, in order
  seen,      \* history: the locations of the documents resolveWsdl parsed, in order
  docRaw,    \* <<>> or <<definitions>>: a parsed tree handed to buildModel
  docModel,  \* <<>> or <<buildModel(raw)>>
  docIndex,  \* <<>> or <<buildIndex(model)>>
  call,      \* <<>> or <<[messageName, message, rest, out, gets]>>: resolveMessageFields
  html,      \* <<>> or <<renderHtml(model, options)>>
  cli,       \* the run of the command line: options, position, streams, exit code
  other      \* a second loadWsdl call of the process, suspended while this one runs

loadVars == <<status, visited, stack, pending, result, error, fs, budget, fetched, seen>>
docVars == <<docRaw, docModel, docIndex, call, html>>
vars == <<loadVars, docVars, cli, other>>

(***************************** bounds ***************************************)

\* import/include/import directives in the whole document graph
MaxDirectives == 3

\* pending calls at which no further fetch is issued: more than resolveWsdl and
\* an import loop per document of the graph
MaxDepth == 2 * (MaxDirectives + 2)

\* part children of a message handed to buildModel
MaxParts == 2

(***************************** util.js **************************************)

\* arr(value): [] for null/undefined, the array itself, or [value]
arr(value) == value

first(s) == IF s = <<>> THEN <<>> ELSE <<s[1]>>

Front(s) == SubSeq(s, 1, Len(s) - 1)

Last(s) == s[Len(s)]

RECURSIVE indexOf(_, _, _)
indexOf(value, ch, i) ==
  IF i > Len(value) THEN 0
  ELSE IF value[i] = ch THEN i
  ELSE indexOf(value, ch, i + 1)

\* stripNs(value): the text after the first colon; a string is its characters
stripNs(value) ==
  LET colon == indexOf(value, ":", 1)
  IN IF value = <<>> THEN <<>>
     ELSE IF colon = 0 THEN value
     ELSE SubSeq(value, colon + 1, Len(value))

RECURSIVE SelectSeqBy(_, _)
SelectSeqBy(s, names) ==
  IF s = <<>> THEN <<>>
  ELSE IF s[1].name \in names THEN SelectSeqBy(Tail(s), names)
  ELSE <<s[1]>> \o SelectSeqBy(Tail(s), names)

NamesOf(s) == {s[i].name : i \in 1..Len(s)}

(***************************** locations ************************************)

Cwd == <<"cwd">>

NoLoc == [kind |-> "none", segs |-> <<>>]
Rel(segs) == [kind |-> "rel", segs |-> segs]
Abs(segs) == [kind |-> "abs", segs |-> segs]
Url(segs) == [kind |-> "url", segs |-> segs]

\* isUrl(loc)
isUrl(loc) == loc.kind = "url"

\* the segments node:path sees in a string: "http://h/s/" is the relative
\* path http:/h/s
PathSegs(p) == IF p.kind = "url" THEN <<"http:">> \o p.segs ELSE p.segs

RECURSIVE normalize(_, _)
normalize(in, out) ==
  IF in = <<>> THEN out
  ELSE IF Head(in) = ".." THEN
    normalize(Tail(in), IF out = <<>> THEN <<>> ELSE Front(out))
  ELSE IF Head(in) = "." THEN normalize(Tail(in), out)
  ELSE normalize(Tail(in), Append(out, Head(in)))

\* path.resolve(baseDir, loc): right to left until an absolute path is built,
\* the working directory in front when neither argument is absolute
resolve(baseDir, loc) ==
  IF loc.kind = "abs" THEN Abs(normalize(loc.segs, <<>>))
  ELSE IF baseDir.kind = "abs"
    THEN Abs(normalize(baseDir.segs \o PathSegs(loc), <<>>))
  ELSE Abs(normalize(Cwd \o PathSegs(baseDir) \o PathSegs(loc), <<>>))

\* absoluteLocation(loc, baseDir)
absoluteLocation(loc, baseDir) ==
  IF isUrl(loc) THEN loc ELSE resolve(baseDir, loc)

\* baseDirOf(absLoc): the URL up to its last "/", or path.dirname
baseDirOf(absLoc) ==
  IF isUrl(absLoc)
    THEN Url(IF Len(absLoc.segs) <= 1 THEN absLoc.segs ELSE Front(absLoc.segs))
  ELSE Abs(Front(absLoc.segs))

(***************************** raw trees ************************************)

XSD_TYPE_KEYS == {"element", "complexType", "simpleType", "group", "attributeGroup"}
WSDL_DEF_KEYS == {"message", "portType", "binding", "service"}

\* {}: a schema node without children
EmptySchema ==
  [import |-> <<>>, include |-> <<>>, element |-> <<>>, complexType |-> <<>>,
   simpleType |-> <<>>, group |-> <<>>, attributeGroup |-> <<>>]

\* the text of a documentation child: where and which declaration it documents
DocText(o, n) == [at |-> o, n |-> n]

\* an import or include element: its schemaLocation or location attribute
Directive(loc) == [loc |-> loc]

RECURSIVE Directives(_)
Directives(locs) ==
  IF locs = <<>> THEN <<>> ELSE <<Directive(Head(locs))>> \o Directives(Tail(locs))

RECURSIVE Enumerations(_)
Enumerations(values) ==
  IF values = <<>> THEN <<>>
  ELSE <<[value |-> Head(values)]>> \o Enumerations(Tail(values))

FieldEl(n, t) ==
  [name |-> n, type |-> t, element |-> <<>>, minOccurs |-> <<>>, maxOccurs |-> <<>>,
   documentation |-> <<>>, annotation |-> <<>>]

ComplexType(n, fields, o, i) ==
  [name |-> n, sequence |-> <<[element |-> fields]>>, all |-> <<>>, choice |-> <<>>,
   attribute |-> <<>>,
   documentation |-> <<>>, annotation |-> <<[documentation |-> <<DocText(o, i)>>]>>]

Element(n, ct, o, i) ==
  [name |-> n, complexType |-> ct,
   documentation |-> <<>>, annotation |-> <<[documentation |-> <<DocText(o, i)>>]>>]

SimpleType(n, values, o, i) ==
  [name |-> n, restriction |-> <<[enumeration |-> Enumerations(values)]>>,
   documentation |-> <<>>, annotation |-> <<[documentation |-> <<DocText(o, i)>>]>>]

Group(n, o, i) == [name |-> n, documentation |-> <<DocText(o, i)>>]

Message(n, o, i) ==
  [name |-> n,
   part |-> <<[name |-> "p", element |-> <<"tns", ":", n>>, type |-> <<>>]>>,
   documentation |-> <<DocText(o, i)>>]

PortType(n, op, o, i) ==
  [name |-> n,
   operation |-> <<[name |-> op, input |-> <<[message |-> <<"tns", ":", "m1">>]>>,
                    output |-> <<>>, fault |-> <<>>,
                    documentation |-> <<>>, annotation |-> <<>>]>>,
   documentation |-> <<DocText(o, i)>>]

Binding(n, o, i) ==
  [name |-> n, type |-> <<"tns", ":", "pa">>, style |-> <<>>,
   binding |-> <<[style |-> <<>>, transport |-> <<"http">>]>>,
   operation |-> <<>>, documentation |-> <<DocText(o, i)>>]

Service(n, o, i) ==
  [name |-> n,
   port |-> <<[name |-> "port", binding |-> <<"tns", ":", "bb">>,
               address |-> <<[location |-> <<"http://h/svc">>]>>]>>,
   documentation |-> <<DocText(o, i)>>]

FileName(o) == IF o.segs = <<>> THEN "" ELSE Last(o.segs)

\* the declarations of the schema in the document at o: a wrapped element named
\* after the file, a bare element, a complexType T in every file, an enumeration
\* in c, a group in b
SchemaOf(o, imports, includes) ==
  LET f == FileName(o)
  IN [import |-> Directives(imports),
      include |-> Directives(includes),
      element |-> << Element(f, <<ComplexType("", <<FieldEl("v", <<"xs", ":", "string">>)>>, o, 1)>>, o, 1),
                     Element("id", <<>>, o, 2) >>,
      complexType |-> << ComplexType("T", <<FieldEl("x", <<"tns", ":", "T">>)>>, o, 3) >>,
      simpleType |-> IF f = "c" THEN << SimpleType("Color", <<"RED", "GREEN">>, o, 4) >> ELSE <<>>,
      group |-> IF f = "b" THEN << Group("g", o, 5) >> ELSE <<>>,
      attributeGroup |-> <<>>]

\* the messages of the document at o: m1 in every file, c declares mc twice
MessagesOf(o) ==
  LET f == FileName(o)
  IN IF f = "a" THEN << Message("m1", o, 1), Message("ma", o, 2) >>
     ELSE IF f = "b" THEN << Message("mb", o, 1), Message("m1", o, 2) >>
     ELSE << Message("m1", o, 1), Message("mc", o, 2), Message("mc", o, 3) >>

\* a definitions node; types is <<>> (absent) or <<[schema |-> <<>> or <<node>>]>>
DefsOf(o, types, wimports) ==
  LET f == FileName(o)
  IN [name |-> f, targetNamespace |-> <<"urn", ":", f>>,
      documentation |-> <<DocText(o, 0)>>, annotation |-> <<>>,
      types |-> types,
      import |-> Directives(wimports),
      message |-> MessagesOf(o),
      portType |-> IF f = "c" THEN <<>> ELSE << PortType("pa", f, o, 1) >>,
      binding |-> IF f = "b" THEN << Binding("bb", o, 1) >> ELSE <<>>,
      service |-> IF f = "a" THEN <<>> ELSE << Service("svc", o, 1) >>]

(***************************** documents ************************************)

\* What the XML parser makes of a document's text: it throws (wellFormed =
\* FALSE) or returns an object keyed by the root element's name.
WsdlDoc(o, types, wimports) ==
  [wellFormed |-> TRUE, definitions |-> <<DefsOf(o, types, wimports)>>, schema |-> <<>>]

XsdDoc(o, imports, includes) ==
  [wellFormed |-> TRUE, definitions |-> <<>>, schema |-> <<SchemaOf(o, imports, includes)>>]

\* a text the parser turns into a tree with neither root: another vocabulary,
\* or ill-formed text that the non-validating parser lets pass
OtherDoc == [wellFormed |-> TRUE, definitions |-> <<>>, schema |-> <<>>]

\* a text on which the parser throws
MalformedDoc == [wellFormed |-> FALSE, definitions |-> <<>>, schema |-> <<>>]

\* parseWsdl(xml): the parsed object, or the error thrown
parseWsdl(xml) ==
  IF ~xml.wellFormed THEN [ok |-> FALSE, raw |-> <<>>, err |-> "parser"]
  ELSE IF xml.definitions = <<>>
    THEN [ok |-> FALSE, raw |-> <<>>, err |-> "missing <definitions>"]
  ELSE [ok |-> TRUE, raw |-> xml.definitions, err |-> ""]

\* parseXsd(xml): result.schema ?? result.definitions?.types?.schema ?? {}
parseXsd(xml) ==
  IF ~xml.wellFormed THEN [ok |-> FALSE, schema |-> EmptySchema, err |-> "parser"]
  ELSE [ok |-> TRUE, err |-> "",
        schema |->
          IF xml.schema # <<>> THEN xml.schema[1]
          ELSE IF xml.definitions # <<>> /\ xml.definitions[1].types # <<>>
                  /\ xml.definitions[1].types[1].schema # <<>>
            THEN xml.definitions[1].types[1].schema[1]
          ELSE EmptySchema]

\* ensureSchema that puts a new, empty schema node in place of the one there
ensureSchemaAnew(defs) == [defs EXCEPT !.types = <<[schema |-> <<EmptySchema>>]>>]

\* ensureSchema(defs): defs with a types.schema node in it
ensureSchema(defs) ==
  IF defs.types = <<>> \/ defs.types[1].schema = <<>>
    THEN [defs EXCEPT !.types = <<[schema |-> <<EmptySchema>>]>>]
  ELSE defs

SchemaIn(defs) == defs.types[1].schema[1]

WithSchema(defs, schema) == [defs EXCEPT !.types = <<[schema |-> <<schema>>]>>]

\* mergeSchema over every key of the schema node, the directives included
mergeSchemaEveryKey(dest, src) ==
  [key \in DOMAIN dest |->
     IF Len(arr(src[key])) # 0 THEN arr(dest[key]) \o arr(src[key]) ELSE dest[key]]

\* mergeSchema(dest, src): src's declarations appended, key by key
mergeSchema(dest, src) ==
  [key \in DOMAIN dest |->
     IF key \in XSD_TYPE_KEYS /\ Len(arr(src[key])) # 0
       THEN arr(dest[key]) \o arr(src[key])
     ELSE dest[key]]

\* mergeWsdlDefs without the filter on existingNames
mergeWsdlDefsUnfiltered(dest, src) ==
  [key \in DOMAIN dest |->
     IF key \in WSDL_DEF_KEYS /\ Len(arr(src[key])) # 0
       THEN arr(dest[key]) \o arr(src[key])
     ELSE dest[key]]

\* mergeWsdlDefs in which the incoming node replaces the one of the same name
mergeWsdlDefsIncomingWins(dest, src) ==
  [key \in DOMAIN dest |->
     IF key \in WSDL_DEF_KEYS /\ Len(arr(src[key])) # 0
       THEN SelectSeqBy(arr(dest[key]), NamesOf(arr(src[key]))) \o arr(src[key])
     ELSE dest[key]]

\* mergeWsdlDefs that carries the imported document's schema declarations along
mergeWsdlDefsAndSchema(dest, src) ==
  [key \in DOMAIN dest |->
     IF key \in WSDL_DEF_KEYS /\ Len(arr(src[key])) # 0
       THEN arr(dest[key]) \o SelectSeqBy(arr(src[key]), NamesOf(arr(dest[key])))
     ELSE IF key = "types" /\ src.types # <<>> /\ dest.types # <<>>
       THEN <<[schema |-> <<mergeSchema(SchemaIn(dest), SchemaIn(src))>>]>>
     ELSE dest[key]]

\* mergeWsdlDefs(dest, src): src's nodes whose name dest lacks, appended
mergeWsdlDefs(dest, src) ==
  [key \in DOMAIN dest |->
     IF key \in WSDL_DEF_KEYS /\ Len(arr(src[key])) # 0
       THEN LET destItems == arr(dest[key])
                existingNames == NamesOf(destItems)
                newItems == SelectSeqBy(arr(src[key]), existingNames)
            IN destItems \o newItems
     ELSE dest[key]]

\* the import loop's list: [...arr(schema.import), ...arr(schema.include)]
XsdDirectives(schema) == arr(schema["import"]) \o arr(schema["include"])

WsdlDirectives(defs) == arr(defs["import"])

(***************************** model.js *************************************)

\* Array.prototype.map, and the push loops that flatten nested arrays
RECURSIVE MapSeq(_, _)
MapSeq(F(_), s) ==
  IF s = <<>> THEN <<>> ELSE <<F(Head(s))>> \o MapSeq(F, Tail(s))

RECURSIVE FlatMapSeq(_, _)
FlatMapSeq(F(_), s) ==
  IF s = <<>> THEN <<>> ELSE F(Head(s)) \o FlatMapSeq(F, Tail(s))

\* the string ''
EmptyText == DocText(NoLoc, 0)

\* attr ?? dflt, for an attribute that is absent when it is <<>>
OrElse(attr, dflt) == IF attr = <<>> THEN dflt ELSE attr

\* text(node), for node = array[0]: '' when there is none, else its (trimmed) text
text(node) == IF node = <<>> THEN EmptyText ELSE node[1]

\* getDoc(node): the direct documentation child, else the annotation's
getDoc(node) ==
  LET direct == text(first(arr(node.documentation)))
      annotation == first(arr(node.annotation))
  IN IF direct # EmptyText THEN direct
     ELSE IF annotation = <<>> THEN EmptyText
     ELSE text(first(arr(annotation[1].documentation)))

FieldOf(el) ==
  [name |-> el.name,
   type |-> stripNs(OrElse(el.type, el.element)),
   minOccurs |-> OrElse(el.minOccurs, <<"1">>),
   maxOccurs |-> OrElse(el.maxOccurs, <<"1">>),
   documentation |-> getDoc(el)]

\* extractFields(complexTypeNode): the first compositor's child elements
extractFields(complexTypeNode) ==
  LET compositor ==
        IF complexTypeNode.sequence # <<>> THEN first(complexTypeNode.sequence)
        ELSE IF complexTypeNode.all # <<>> THEN first(complexTypeNode.all)
        ELSE first(complexTypeNode.choice)
  IN IF compositor = <<>> THEN <<>> ELSE MapSeq(FieldOf, arr(compositor[1].element))

EnumerationOf(e) == e.value

\* extractEnumerations(simpleTypeNode)
extractEnumerations(simpleTypeNode) ==
  IF simpleTypeNode.restriction = <<>> THEN <<>>
  ELSE MapSeq(EnumerationOf, arr(simpleTypeNode.restriction[1].enumeration))

\* the parser's value for an element without attributes, children or text is the
\* string '', which is falsy
Blank(complexTypeNode) ==
  /\ complexTypeNode.name = ""
  /\ complexTypeNode.sequence = <<>> /\ complexTypeNode.all = <<>>
  /\ complexTypeNode.choice = <<>> /\ complexTypeNode.attribute = <<>>
  /\ complexTypeNode.documentation = <<>> /\ complexTypeNode.annotation = <<>>

\* extractTypes, lines 130-140: nothing for an element whose first complexType
\* child is missing or falsy
ElementTypes(el) ==
  LET ct == first(arr(el.complexType))
  IN IF ct = <<>> \/ Blank(ct[1]) THEN <<>>
     ELSE <<[name |-> el.name, kind |-> "element", documentation |-> getDoc(el),
             fields |-> extractFields(ct[1]), enumerations |-> <<>>]>>

\* a complexType TypeDef that lists its name among its enumerations
ComplexTypeDefEnumerated(ct) ==
  [name |-> ct.name, kind |-> "complexType", documentation |-> getDoc(ct),
   fields |-> extractFields(ct), enumerations |-> <<ct.name>>]

ComplexTypeDef(ct) ==
  [name |-> ct.name, kind |-> "complexType", documentation |-> getDoc(ct),
   fields |-> extractFields(ct), enumerations |-> <<>>]

SimpleTypeDef(st) ==
  [name |-> st.name, kind |-> "simpleType", documentation |-> getDoc(st),
   fields |-> <<>>, enumerations |-> extractEnumerations(st)]

\* extractTypes(schema): wrapped elements, then complexTypes, then simpleTypes
extractTypes(schema) ==
  FlatMapSeq(ElementTypes, arr(schema.element))
    \o MapSeq(ComplexTypeDef, arr(schema.complexType))
    \o MapSeq(SimpleTypeDef, arr(schema.simpleType))

\* a Part that keeps the type reference only when there is no element reference
PartOfExclusive(p) ==
  [name |-> p.name, element |-> stripNs(p.element),
   type |-> IF p.element # <<>> THEN <<>> ELSE stripNs(p.type)]

PartOf(p) ==
  [name |-> p.name, element |-> stripNs(p.element), type |-> stripNs(p.type)]

MessageOf(msg) == [name |-> msg.name, parts |-> MapSeq(PartOf, arr(msg.part))]

\* extractMessages(messages)
extractMessages(messages) == MapSeq(MessageOf, messages)

\* String(undefined) for the message of a missing input or output
MessageRefUndefined(io) == IF io = <<>> THEN <<"undefined">> ELSE stripNs(io[1].message)

MessageRef(io) == IF io = <<>> THEN <<>> ELSE stripNs(io[1].message)

FaultOf(f) == [name |-> f.name, message |-> stripNs(f.message)]

OperationOf(op) ==
  [name |-> op.name, documentation |-> getDoc(op),
   input |-> MessageRef(first(arr(op.input))),
   output |-> MessageRef(first(arr(op.output))),
   faults |-> MapSeq(FaultOf, arr(op.fault))]

OperationsOf(pt) == MapSeq(OperationOf, arr(pt.operation))

\* extractOperations(portTypes): every portType's operations, flattened
extractOperations(portTypes) == FlatMapSeq(OperationsOf, portTypes)

\* detectProtocol(transport): transport.includes('soap12')
detectProtocol(transport) ==
  IF \E i \in 1..Len(transport) : transport[i] = "soap12" THEN "SOAP 1.2" ELSE "SOAP 1.1"

BoundOperationOf(op) ==
  LET soapOp == first(arr(op.operation))
  IN [name |-> op.name,
      soapAction |-> IF soapOp = <<>> THEN <<>> ELSE soapOp[1].soapAction]

\* a binding whose style is read from the enclosing node
BindingOfOuterStyle(b) ==
  LET soapBinding == first(arr(b.binding))
      transport == IF soapBinding = <<>> THEN <<>> ELSE soapBinding[1].transport
  IN [name |-> b.name, type |-> stripNs(b.type),
      style |-> OrElse(b.style, <<"document">>),
      transport |-> transport,
      protocol |-> detectProtocol(transport),
      operations |-> MapSeq(BoundOperationOf, arr(b.operation))]

BindingOf(b) ==
  LET soapBinding == first(arr(b.binding))
      transport == IF soapBinding = <<>> THEN <<>> ELSE soapBinding[1].transport
  IN [name |-> b.name, type |-> stripNs(b.type),
      style |-> IF soapBinding = <<>> THEN <<"document">>
                ELSE OrElse(soapBinding[1].style, <<"document">>),
      transport |-> transport,
      protocol |-> detectProtocol(transport),
      operations |-> MapSeq(BoundOperationOf, arr(b.operation))]

\* extractBindings(bindings)
extractBindings(bindings) == MapSeq(BindingOf, bindings)

\* extractEndpoints(services): one endpoint per service and port
extractEndpoints(services) ==
  LET PortsOf(svc) ==
        LET EndpointOf(port) ==
              [service |-> svc.name, port |-> port.name,
               binding |-> stripNs(port.binding),
               url |-> IF port.address = <<>> THEN <<>> ELSE port.address[1].location]
        IN MapSeq(EndpointOf, arr(svc.port))
  IN FlatMapSeq(PortsOf, services)

\* buildModel(raw), raw being <<definitions>>
buildModel(raw) ==
  LET defs == raw[1]
      schema == IF defs.types = <<>> \/ defs.types[1].schema = <<>> THEN EmptySchema
                ELSE defs.types[1].schema[1]
  IN [name |-> defs.name,
      targetNamespace |-> defs.targetNamespace,
      documentation |-> getDoc(defs),
      types |-> extractTypes(schema),
      messages |-> extractMessages(arr(defs.message)),
      operations |-> extractOperations(arr(defs.portType)),
      bindings |-> extractBindings(arr(defs.binding)),
      endpoints |-> extractEndpoints(arr(defs.service))]

(***************************** environment **********************************)

\* the file the command line was given, and the base directory it derives
RootLoc == Abs(<<"w", "a">>)
RootBaseDir == Abs(<<"w">>)

\* the location strings a directive may carry
LocStrings ==
  {Abs(<<"w", "a">>), Rel(<<"s", "b">>), Url(<<"h", "s", "c">>), NoLoc}

RECURSIVE SeqsUpTo(_, _)
SeqsUpTo(S, n) ==
  IF n = 0 THEN {<<>>}
  ELSE LET shorter == SeqsUpTo(S, n - 1)
       IN shorter \cup {Append(q, x) : q \in {r \in shorter : Len(r) = n - 1}, x \in S}

\* the ways to cut d in three: schema imports, at most one schema include,
\* document imports
Cuts(d) ==
  {c \in (0..Len(d)) \X (0..Len(d)) : c[1] <= c[2] /\ c[2] <= c[1] + 1}

\* the documents with a definitions root that may sit at o, with at most b directives
WsdlDocsAt(o, b) ==
  UNION {{WsdlDoc(o, <<[schema |-> <<SchemaOf(o, SubSeq(d, 1, c[1]), SubSeq(d, c[1] + 1, c[2]))>>]>>,
                  SubSeq(d, c[2] + 1, Len(d))) : c \in Cuts(d)} :
         d \in SeqsUpTo(LocStrings, b)}

\* the documents with a schema root that may sit at o, with at most b directives
XsdDocsAt(o, b) ==
  UNION {{XsdDoc(o, SubSeq(d, 1, c[1]), SubSeq(d, c[1] + 1, Len(d))) :
            c \in {c \in Cuts(d) : c[2] = Len(d)}} :
         d \in SeqsUpTo(LocStrings, b)}

\* a document with nothing but messages, port types and services
SparseDoc(o) == WsdlDoc(o, <<>>, <<>>)

DirectiveCount(doc) ==
  (IF doc.schema = <<>> THEN 0
   ELSE Len(doc.schema[1]["import"]) + Len(doc.schema[1]["include"]))
  + (IF doc.definitions = <<>> THEN 0
     ELSE Len(doc.definitions[1]["import"])
          + (IF doc.definitions[1].types = <<>> THEN 0
             ELSE Len(SchemaIn(doc.definitions[1])["import"])
                  + Len(SchemaIn(doc.definitions[1])["include"])))

\* what a successful read of absLoc may return: the text read before, else any
\* document of the kind asked for, or one with another root, or a malformed one;
\* a schema location may also hold a WSDL document with an embedded schema,
\* which parseXsd reads through definitions.types.schema
TextsAt(absLoc, how) ==
  IF absLoc \in DOMAIN fs THEN {fs[absLoc]}
  ELSE (IF how = "xsd" THEN XsdDocsAt(absLoc, budget) \cup WsdlDocsAt(absLoc, 0)
        ELSE WsdlDocsAt(absLoc, budget))
       \cup {OtherDoc, MalformedDoc}

\* how fetchSource(absLoc) may reject, and whether the error names the location:
\* a non-OK status throws `Failed to fetch ${absLoc}`, readFile's error holds the
\* path, fetch's own rejection is passed on as it is
Rejections(absLoc) ==
  IF isUrl(absLoc)
    THEN {[kind |-> "http status", loc |-> absLoc], [kind |-> "fetch failed", loc |-> NoLoc]}
  ELSE {[kind |-> "ENOENT", loc |-> absLoc]}

\* an option or a value that is not there
Undefined == <<>>

\* loadWsdl, buildModel and renderHtml called as library functions: no command line
CliOff ==
  [pc |-> "off", opts |-> [inlineCss |-> FALSE, output |-> FALSE, title |-> Undefined],
   booleanAttr |-> FALSE, inlineCss |-> Undefined,
   stdout |-> <<>>, stderr |-> <<>>, file |-> <<>>, code |-> <<>>, failed |-> ""]

\* a loadWsdl call that has not been made
Uncalled ==
  [status |-> "idle", visited |-> {}, stack |-> <<>>, pending |-> <<>>,
   fetched |-> <<>>, result |-> <<>>]

\* one loadWsdl call in the process and no second one
NoCall == [id |-> 0, machine |-> Uncalled, error |-> <<>>, seen |-> <<>>]

(***************************** load.js **************************************)

(* One resolution runs as a chain of handlers: loadWsdl's call, then one   *)
(* continuation per completed fetchSource.  Between two awaited reads the  *)
(* code runs without suspension, so a handler is the machine m = [status,  *)
(* visited, stack, pending, fetched, result] advanced turn by turn until   *)
(* it awaits the next read, returns or throws.                             *)

Frame(fn, node, baseDir, at) ==
  [fn |-> fn, node |-> node, baseDir |-> baseDir, i |-> 1, at |-> at]

TopOf(m) == m.stack[Len(m.stack)]

CallerOf(m) == m.stack[Len(m.stack) - 1]

\* the stack with its n innermost frames replaced by frame
ReplaceTop(m, n, frame) ==
  SubSeq(m.stack, 1, Len(m.stack) - n) \o <<frame>>

\* resolveWsdl up to its first await: ensureSchema, enter resolveXsdImports
resolveWsdl(raw, baseDir, at) ==
  LET defs == ensureSchema(raw[1])
  IN << Frame("resolveWsdl", defs, baseDir, at),
        Frame("resolveXsdImports", SchemaIn(defs), baseDir, at) >>

\* ImportStep without the visited.has check
ImportStepRevisits(m, dirs, how) ==
  LET top == TopOf(m)
      loc == dirs[top.i].loc
      absLoc == absoluteLocation(loc, top.baseDir)
  IN IF loc.kind = "none"
       THEN [m EXCEPT !.stack = ReplaceTop(m, 1, [top EXCEPT !.i = @ + 1])]
     ELSE [m EXCEPT !.visited = @ \cup {absLoc},
                    !.pending = <<[loc |-> absLoc, how |-> how, text |-> <<>>]>>,
                    !.fetched = Append(@, absLoc),
                    !.status = "fetching"]

\* ImportStep that does not await the read: the fetch is issued and the loop
\* goes on to the next directive
ImportStepEager(m, dirs, how) ==
  LET top == TopOf(m)
      loc == dirs[top.i].loc
      absLoc == absoluteLocation(loc, top.baseDir)
  IN IF loc.kind = "none" \/ absLoc \in m.visited
       THEN [m EXCEPT !.stack = ReplaceTop(m, 1, [top EXCEPT !.i = @ + 1])]
     ELSE [m EXCEPT !.visited = @ \cup {absLoc},
                    !.pending = Append(@, [loc |-> absLoc, how |-> how, text |-> <<>>]),
                    !.fetched = Append(@, absLoc),
                    !.stack = ReplaceTop(m, 1, [top EXCEPT !.i = @ + 1])]

\* one turn of an import loop up to its await (lines 81-87, 105-111): skip the
\* directive, or mark its location visited and call fetchSource
ImportStep(m, dirs, how) ==
  LET top == TopOf(m)
      loc == dirs[top.i].loc
      absLoc == absoluteLocation(loc, top.baseDir)
  IN IF loc.kind = "none" \/ absLoc \in m.visited
       THEN [m EXCEPT !.stack = ReplaceTop(m, 1, [top EXCEPT !.i = @ + 1])]
     ELSE [m EXCEPT !.visited = @ \cup {absLoc},
                    !.pending = <<[loc |-> absLoc, how |-> how, text |-> <<>>]>>,
                    !.fetched = Append(@, absLoc),
                    !.status = "fetching"]

\* resolveXsdImports, line 91: the nested call returned, mergeSchema, next turn
XsdImportMerged(m) ==
  [m EXCEPT !.stack = ReplaceTop(m, 2, [CallerOf(m) EXCEPT
                                          !.node = mergeSchema(@, TopOf(m).node),
                                          !.i = @ + 1])]

\* resolveWsdl, lines 66-67: resolveXsdImports returned, enter resolveWsdlImports
XsdImportsResolved(m) ==
  LET caller == CallerOf(m)
      defs == WithSchema(caller.node, TopOf(m).node)
  IN [m EXCEPT !.stack = ReplaceTop(m, 2, [caller EXCEPT !.node = defs])
                         \o <<Frame("resolveWsdlImports", defs, caller.baseDir, caller.at)>>]

\* resolveWsdlImports, lines 112-113: the nested resolveWsdl returned its raw
\* tree, mergeWsdlDefs, next turn
WsdlImportMerged(m) ==
  LET importer == m.stack[Len(m.stack) - 2]
  IN [m EXCEPT !.stack = ReplaceTop(m, 3, [importer EXCEPT
                                             !.node = mergeWsdlDefs(@, TopOf(m).node),
                                             !.i = @ + 1])]

\* resolveWsdl, line 68, and loadWsdl, line 50: the outermost call returns raw
LoadWsdlReturns(m) ==
  [m EXCEPT !.stack = <<>>, !.status = "done", !.result = <<TopOf(m).node>>]

\* the next turn of the innermost pending call
Turn(m) ==
  LET top == TopOf(m)
  IN IF top.fn = "resolveXsdImports"
       THEN IF top.i <= Len(XsdDirectives(top.node))
              THEN ImportStep(m, XsdDirectives(top.node), "xsd")
            ELSE IF CallerOf(m).fn = "resolveXsdImports" THEN XsdImportMerged(m)
            ELSE XsdImportsResolved(m)
     ELSE IF top.i <= Len(WsdlDirectives(top.node))
            THEN ImportStep(m, WsdlDirectives(top.node), "wsdl")
          ELSE IF Len(m.stack) > 2 THEN WsdlImportMerged(m)
          ELSE LoadWsdlReturns(m)

\* run until the next await of fetchSource, or to the end (each turn's outcome
\* is bound as a value before the next turn reads it)
RECURSIVE Run(_)
Run(m) ==
  IF m.status = "running"
    THEN CHOOSE r \in {Run(n) : n \in {Turn(m)}} : TRUE
  ELSE m

Machine ==
  [status |-> status, visited |-> visited, stack |-> stack, pending |-> pending,
   fetched |-> fetched, result |-> result]

\* loadWsdl whose visited set is one Set of the module, shared by every call
loadWsdlSharedVisited(raw, baseDir, at) ==
  Run([status |-> "running", visited |-> other.machine.visited,
       stack |-> resolveWsdl(raw, baseDir, at),
       pending |-> <<>>, fetched |-> <<>>, result |-> <<>>])

\* loadWsdl, lines 49-50, on the parsed text: a new visited set, resolveWsdl, up
\* to the first await or to the end
loadWsdl(raw, baseDir, at) ==
  Run([status |-> "running", visited |-> {}, stack |-> resolveWsdl(raw, baseDir, at),
       pending |-> <<>>, fetched |-> <<>>, result |-> <<>>])

Becomes(outcome) ==
  \E m \in {outcome} :
    /\ status' = m.status
    /\ visited' = m.visited
    /\ stack' = m.stack
    /\ pending' = m.pending
    /\ fetched' = m.fetched
    /\ result' = m.result

\* a rejection caught inside the import loop, which goes on to the next directive
RejectedAndSkipped ==
  IF stack = <<>> THEN [Machine EXCEPT !.status = "failed", !.pending = <<>>]
  ELSE Run([Machine EXCEPT !.status = "running", !.pending = <<>>,
                           !.stack = ReplaceTop(Machine, 1, [TopOf(Machine) EXCEPT !.i = @ + 1])])

\* the rejection of an async call unwinds every pending call
Rejected == [Machine EXCEPT !.status = "failed", !.stack = <<>>, !.pending = <<>>]

Init ==
  /\ status = "idle"
  /\ visited = {}
  /\ stack = <<>>
  /\ pending = <<>>
  /\ result = <<>>
  /\ error = <<>>
  /\ \E doc \in WsdlDocsAt(RootLoc, MaxDirectives) \cup {SparseDoc(RootLoc), OtherDoc} :
       /\ fs = (RootLoc :> doc)
       /\ budget = MaxDirectives - DirectiveCount(doc)
  /\ fetched = <<>>
  /\ seen = <<>>
  /\ docRaw = <<>> /\ docModel = <<>> /\ docIndex = <<>> /\ call = <<>> /\ html = <<>>
  /\ cli = CliOff
  /\ other = NoCall

\* the call loadWsdl(xml, {baseDir}) of the command line, parseWsdl included
LoadWsdl ==
  /\ status = "idle"
  /\ LET parsed == parseWsdl(fs[RootLoc])
     IN IF parsed.ok
          THEN /\ Becomes(loadWsdl(parsed.raw, RootBaseDir, RootLoc))
               /\ seen' = Append(seen, RootLoc)
               /\ error' = error
          ELSE /\ Becomes(Rejected)
               /\ seen' = seen
               /\ error' = <<[kind |-> parsed.err, loc |-> NoLoc]>>
  /\ UNCHANGED <<fs, budget, docVars, cli, other>>

\* a read is being awaited, and the pending calls are within the depth cap
Awaiting ==
  /\ status = "fetching"
  /\ pending[1].text = <<>>
  /\ Len(stack) < MaxDepth

\* fetchSource resolves: the environment hands over the text behind the location
FetchResolved ==
  /\ Awaiting
  /\ \E xml \in TextsAt(pending[1].loc, pending[1].how) :
       LET absLoc == pending[1].loc
       IN /\ pending' = <<[pending[1] EXCEPT !.text = <<xml>>]>>
          /\ fs' = IF absLoc \in DOMAIN fs THEN fs ELSE fs @@ (absLoc :> xml)
          /\ budget' = IF absLoc \in DOMAIN fs THEN budget ELSE budget - DirectiveCount(xml)
  /\ UNCHANGED <<status, visited, stack, result, error, fetched, seen, docVars, cli, other>>

\* fetchSource rejects
FetchRejected ==
  /\ Awaiting
  /\ \E err \in Rejections(pending[1].loc) :
       /\ Becomes(Rejected)
       /\ error' = <<err>>
  /\ UNCHANGED <<fs, budget, seen, docVars, cli, other>>

\* the continuation of an await whose text has arrived
Resumes(how) ==
  /\ status = "fetching"
  /\ pending[1].text # <<>>
  /\ pending[1].how = how

\* resolveXsdImports, lines 87-90: with the text, parseXsd and recurse
XsdFetched ==
  /\ Resumes("xsd")
  /\ LET absLoc == pending[1].loc
         parsed == parseXsd(pending[1].text[1])
     IN IF parsed.ok
          THEN /\ Becomes(Run([Machine EXCEPT
                                 !.status = "running", !.pending = <<>>,
                                 !.stack = Append(@, Frame("resolveXsdImports", parsed.schema,
                                                           baseDirOf(absLoc), absLoc))]))
               /\ error' = error
          ELSE /\ Becomes(Rejected)
               /\ error' = <<[kind |-> parsed.err, loc |-> NoLoc]>>
  /\ UNCHANGED <<fs, budget, seen, docVars, cli, other>>

\* resolveWsdlImports, lines 111-112: with the text, resolveWsdl on it
WsdlFetched ==
  /\ Resumes("wsdl")
  /\ LET absLoc == pending[1].loc
         parsed == parseWsdl(pending[1].text[1])
     IN IF parsed.ok
          THEN /\ Becomes(Run([Machine EXCEPT
                                 !.status = "running", !.pending = <<>>,
                                 !.stack = @ \o resolveWsdl(parsed.raw, baseDirOf(absLoc), absLoc)]))
               /\ error' = error
               /\ seen' = Append(seen, absLoc)
          ELSE /\ Becomes(Rejected)
               /\ error' = <<[kind |-> parsed.err, loc |-> NoLoc]>>
               /\ seen' = seen
  /\ UNCHANGED <<fs, budget, docVars, cli, other>>

Next ==
  \/ LoadWsdl
  \/ FetchResolved
  \/ FetchRejected
  \/ XsdFetched
  \/ WsdlFetched

Spec == Init /\ [][Next]_vars

\* every fetch completes, and every continuation runs
LiveSpec == Spec /\ WF_vars(Next)

\* the continuations of the two awaits (lines 87-90 and 111-112) on the call m
\* whose read has returned xml: parse, recurse, up to the next await or to the end
Continue(m, xml) ==
  LET absLoc == m.pending[1].loc
      failed == [m EXCEPT !.status = "failed", !.stack = <<>>, !.pending = <<>>]
  IN IF m.pending[1].how = "xsd"
       THEN LET parsed == parseXsd(xml)
            IN IF parsed.ok
                 THEN Run([m EXCEPT
                             !.status = "running", !.pending = <<>>,
                             !.stack = Append(@, Frame("resolveXsdImports", parsed.schema,
                                                       baseDirOf(absLoc), absLoc))])
               ELSE failed
     ELSE LET parsed == parseWsdl(xml)
          IN IF parsed.ok
               THEN Run([m EXCEPT
                           !.status = "running", !.pending = <<>>,
                           !.stack = @ \o resolveWsdl(parsed.raw, baseDirOf(absLoc), absLoc)])
             ELSE failed

\* the call m carried on by itself, every read answered with the text the
\* location holds, as far as the texts are known
RECURSIVE Complete(_)
Complete(m) ==
  IF m.status = "fetching" /\ m.pending[1].loc \in DOMAIN fs
    THEN CHOOSE r \in {Complete(n) : n \in {Continue(m, fs[m.pending[1].loc])}} : TRUE
  ELSE m

\* the handlers XsdFetched and WsdlFetched do to the call what Continue does
ContinueAgrees ==
  [][(status = "fetching" /\ pending[1].text # <<>>)
       => Machine' = Continue(Machine, pending[1].text[1])]_loadVars

(***************************** two loadWsdl calls ***************************)

\* the directives the documents of two concurrent calls may hold
PairDirectives == 2

\* two calls of loadWsdl on the same text, the first about to be made; the
\* suspended call is kept in `other`, the variables of the resolution are those
\* of the call whose handler runs next
PairInit ==
  /\ status = "idle"
  /\ visited = {}
  /\ stack = <<>>
  /\ pending = <<>>
  /\ result = <<>>
  /\ error = <<>>
  /\ \E doc \in WsdlDocsAt(RootLoc, PairDirectives) \cup {SparseDoc(RootLoc)} :
       /\ fs = (RootLoc :> doc)
       /\ budget = PairDirectives - DirectiveCount(doc)
  /\ fetched = <<>>
  /\ seen = <<>>
  /\ docRaw = <<>> /\ docModel = <<>> /\ docIndex = <<>> /\ call = <<>> /\ html = <<>>
  /\ cli = CliOff
  /\ other = [NoCall EXCEPT !.id = 2]

\* between two handlers the event loop turns to the other call: its next
\* handler is the call of loadWsdl or the continuation of its awaited read
Switch ==
  /\ other.id # 0
  /\ Becomes(other.machine)
  /\ error' = other.error
  /\ seen' = other.seen
  /\ other' = [id |-> 3 - other.id, machine |-> Machine, error |-> error, seen |-> seen]
  /\ UNCHANGED <<fs, budget, docVars, cli>>

PairNext ==
  \/ Next
  \/ Switch

PairSpec == PairInit /\ [][PairNext]_vars

(***************************** sparse trees *********************************)

\* Trees parseWsdl returns for documents that leave optional parts out.  An
\* attribute that is absent is <<>> (a name: ""); attributes that are present
\* have non-empty values.

\* the text of a documentation child of these trees
Doc(n) == DocText(NoLoc, n)

\* a node with none of the children and attributes buildModel reads
Bare ==
  [name |-> "", type |-> <<>>, element |-> <<>>, minOccurs |-> <<>>, maxOccurs |-> <<>>,
   documentation |-> <<>>, annotation |-> <<>>]

Field(n, t, min, docs) ==
  [Bare EXCEPT !.name = n, !.type = t, !.minOccurs = min, !.documentation = docs]

\* a complexType with none of its children
BareType ==
  [name |-> "", sequence |-> <<>>, all |-> <<>>, choice |-> <<>>, attribute |-> <<>>,
   documentation |-> <<>>, annotation |-> <<>>]

Wrapper(n, ct) ==
  [name |-> n, complexType |-> ct, documentation |-> <<>>, annotation |-> <<>>]

Simple(n, restriction) ==
  [name |-> n, restriction |-> restriction, documentation |-> <<>>, annotation |-> <<>>]

\* E wraps a type with an optional and a required field; Ping wraps <complexType/>;
\* id wraps nothing; T refers to itself; a complexType with attributes only;
\* Color enumerates, Pat restricts without enumerating, U does not restrict
PlainSchema ==
  [EmptySchema EXCEPT
     !.element = << Wrapper("E", <<[BareType EXCEPT !.sequence =
                       <<[element |-> << Field("a", <<"xs", ":", "double">>, <<"0">>, <<>>),
                                         Field("b", <<"tns", ":", "T">>, <<>>, <<Doc(1)>>) >>]>>]>>),
                    Wrapper("Ping", <<BareType>>),
                    Wrapper("id", <<>>) >>,
     !.complexType = << [BareType EXCEPT !.name = "T", !.all =
                           <<[element |-> << Field("x", <<"tns", ":", "T">>, <<>>, <<>>) >>]>>],
                        [BareType EXCEPT !.attribute = <<[name |-> "lang"]>>] >>,
     !.simpleType = << Simple("Color", <<[enumeration |-> Enumerations(<<"RED", "GREEN">>)]>>),
                       Simple("Pat", <<[enumeration |-> <<>>]>>),
                       Simple("U", <<>>) >>]

\* E and T refer to each other; T is declared twice; an empty compositor in
\* front of a filled one
CyclicSchema ==
  [EmptySchema EXCEPT
     !.element = << Wrapper("E", <<[BareType EXCEPT !.choice =
                       <<[element |-> << Field("y", <<"tns", ":", "T">>, <<>>, <<>>) >>]>>]>>) >>,
     !.complexType = << [BareType EXCEPT !.name = "T", !.sequence =
                           <<[element |-> << Field("z", <<"tns", ":", "E">>, <<>>, <<>>) >>]>>],
                        [BareType EXCEPT !.name = "T", !.sequence = <<[element |-> <<>>]>>,
                           !.all = <<[element |-> << Field("w", <<"xs", ":", "int">>, <<>>, <<>>) >>]>>] >>]

\* the types child of definitions: absent, without schema, or with one
SparseTypes ==
  { <<>>, <<[schema |-> <<>>]>>, <<[schema |-> <<EmptySchema>>]>>,
    <<[schema |-> <<PlainSchema>>]>>, <<[schema |-> <<CyclicSchema>>]>> }

\* part children: the element and the type attribute, each present or absent
PartShapes ==
  { [name |-> IF e = <<>> THEN "q" ELSE "p", element |-> e, type |-> t] :
      e \in {<<>>, <<"tns", ":", "E">>}, t \in {<<>>, <<"tns", ":", "T">>} }

Msg(n, parts) == [name |-> n, part |-> parts, documentation |-> <<>>]

Op(n, in, out, faults, docs) ==
  [name |-> n, input |-> in, output |-> out, fault |-> faults,
   documentation |-> docs, annotation |-> <<>>]

BindingNode(n, style, soapBinding, ops) ==
  [name |-> n, type |-> <<"tns", ":", "pt">>, style |-> style, binding |-> soapBinding,
   operation |-> ops, documentation |-> <<>>]

\* the rest of a definitions node: its attributes, messages besides m, portTypes,
\* bindings and services
SparseRests ==
  { [name |-> "", targetNamespace |-> <<>>, documentation |-> <<>>,
     message |-> <<>>, portType |-> <<>>, binding |-> <<>>, service |-> <<>>],
    [name |-> "svc", targetNamespace |-> <<"urn", ":", "x">>, documentation |-> <<Doc(2)>>,
     message |-> <<Msg("out", <<>>)>>,
     portType |-> << [name |-> "pt", documentation |-> <<>>, operation |->
                        << Op("op", <<[message |-> <<"tns", ":", "m">>]>>,
                              <<[message |-> <<"tns", ":", "out">>]>>, <<>>, <<Doc(3)>>) >>] >>,
     binding |-> << BindingNode("b", <<>>, <<[style |-> <<>>, transport |-> <<"http">>]>>,
                                << [name |-> "op", operation |-> <<[soapAction |-> <<"urn:op">>]>>] >>) >>,
     service |-> << [name |-> "s", documentation |-> <<>>, port |->
                       << [name |-> "port", binding |-> <<"tns", ":", "b">>,
                           address |-> <<[location |-> <<"http://h/s">>]>>] >>] >>],
    [name |-> "svc", targetNamespace |-> <<>>, documentation |-> <<>>,
     message |-> <<>>,
     portType |-> << [name |-> "pt", documentation |-> <<>>, operation |-> <<>>] >>,
     binding |-> << BindingNode("b", <<"rpc">>, <<>>, <<>>) >>,
     service |-> << [name |-> "s", documentation |-> <<>>, port |-> <<>>] >>],
    [name |-> "svc", targetNamespace |-> <<>>, documentation |-> <<Doc(0)>>,
     message |-> <<Msg("m", <<[name |-> "r", element |-> <<>>, type |-> <<"xs", ":", "int">>]>>)>>,
     portType |-> << [name |-> "pt", documentation |-> <<>>, operation |->
                        << Op("op", <<[message |-> <<"tns", ":", "m">>]>>,
                              <<[message |-> <<"m">>]>>,
                              <<[name |-> "f", message |-> <<"tns", ":", "gone">>]>>, <<>>),
                           Op("", <<>>, <<>>, <<>>, <<>>) >>] >>,
     binding |-> << BindingNode("b", <<>>, <<[style |-> <<"rpc">>, transport |-> <<"soap12">>]>>,
                                << [name |-> "op", operation |-> <<>>] >>),
                    BindingNode("c", <<"rpc">>, <<[style |-> <<>>, transport |-> <<>>]>>, <<>>) >>,
     service |-> << [name |-> "s", documentation |-> <<>>, port |->
                       << [name |-> "", binding |-> <<>>, address |-> <<>>] >>] >>] }

\* the trees: message m with every list of parts, in front of the rest's messages
SparseTrees ==
  { << [name |-> rest.name, targetNamespace |-> rest.targetNamespace,
        documentation |-> rest.documentation, annotation |-> <<>>,
        types |-> types, import |-> <<>>,
        message |-> IF rest.portType = <<>> /\ parts = <<>> THEN <<>>
                    ELSE <<Msg("m", parts)>> \o rest.message,
        portType |-> rest.portType, binding |-> rest.binding,
        service |-> rest.service] >> :
      types \in SparseTypes, parts \in SeqsUpTo(PartShapes, MaxParts), rest \in SparseRests }

(***************************** resolve.js ***********************************)

\* a name of the model as the string a reference is compared with
Str(n) == IF n = "" THEN <<>> ELSE <<n>>

\* a map in which the first entry with a key stays
RECURSIVE NewMapFirstWins(_)
NewMapFirstWins(entries) ==
  IF entries = <<>> THEN <<>>
  ELSE LET map == NewMapFirstWins(Front(entries))
           e == Last(entries)
       IN [k \in DOMAIN map \cup {e[1]} |-> IF k \in DOMAIN map THEN map[k] ELSE e[2]]

\* new Map(entries): a later entry replaces an earlier one with the same key
RECURSIVE NewMap(_)
NewMap(entries) ==
  IF entries = <<>> THEN <<>>
  ELSE LET map == NewMap(Front(entries))
           e == Last(entries)
       IN [k \in DOMAIN map \cup {e[1]} |-> IF k = e[1] THEN e[2] ELSE map[k]]

\* map.get(key): <<>> for undefined
Get(map, key) == IF key \in DOMAIN map THEN <<map[key]>> ELSE <<>>

\* buildIndex(model)
buildIndex(m) ==
  LET Entry(x) == <<Str(x.name), x>>
  IN [typeByName |-> NewMap(MapSeq(Entry, m.types)),
      messageByName |-> NewMap(MapSeq(Entry, m.messages))]

\* part.element || part.type
refName(part) == IF part.element # <<>> THEN part.element ELSE part.type

\* the callback of resolveMessageFields that reads the types of the fields it
\* returns as well
resolvePartAndItsFields(part, idx) ==
  LET type == Get(idx.typeByName, refName(part))
      TypeOf(f) == f.type
  IN [descriptor |-> [partName |-> part.name, typeName |-> refName(part),
                      fields |-> IF type = <<>> THEN <<>> ELSE type[1].fields,
                      enumerations |-> IF type = <<>> THEN <<>> ELSE type[1].enumerations],
      gets |-> <<refName(part)>>
                 \o (IF type = <<>> THEN <<>> ELSE MapSeq(TypeOf, type[1].fields))]

\* the callback of resolveMessageFields that takes the type reference before
\* the element reference
resolvePartTypeFirst(part, idx) ==
  LET ref == IF part.type # <<>> THEN part.type ELSE part.element
      type == Get(idx.typeByName, ref)
  IN [descriptor |-> [partName |-> part.name, typeName |-> ref,
                      fields |-> IF type = <<>> THEN <<>> ELSE type[1].fields,
                      enumerations |-> IF type = <<>> THEN <<>> ELSE type[1].enumerations],
      gets |-> <<ref>>]

\* the callback of resolveMessageFields that falls back on some type of the
\* index when the referenced one is unknown
resolvePartFallsBack(part, idx) ==
  LET known == Get(idx.typeByName, refName(part))
      type == IF known = <<>> /\ DOMAIN idx.typeByName # {}
                THEN <<idx.typeByName[CHOOSE k \in DOMAIN idx.typeByName :
                                        idx.typeByName[k].fields # <<>>
                                        \/ \A l \in DOMAIN idx.typeByName :
                                             idx.typeByName[l].fields = <<>>]>>
              ELSE known
  IN [descriptor |-> [partName |-> part.name, typeName |-> refName(part),
                      fields |-> IF type = <<>> THEN <<>> ELSE type[1].fields,
                      enumerations |-> IF type = <<>> THEN <<>> ELSE type[1].enumerations],
      gets |-> <<refName(part)>>]

\* the callback of resolveMessageFields, lines 47-56: the descriptor of one part,
\* and the keys it reads from typeByName
resolvePart(part, idx) ==
  LET type == Get(idx.typeByName, refName(part))
  IN [descriptor |-> [partName |-> part.name, typeName |-> refName(part),
                      fields |-> IF type = <<>> THEN <<>> ELSE type[1].fields,
                      enumerations |-> IF type = <<>> THEN <<>> ELSE type[1].enumerations],
      gets |-> <<refName(part)>>]

\* messageByName.get that finds a message under every name
lookupMessageAny(messageName, idx) ==
  IF DOMAIN idx.messageByName = {} THEN <<>>
  ELSE <<idx.messageByName[CHOOSE k \in DOMAIN idx.messageByName : TRUE]>>

\* resolveMessageFields, line 45
lookupMessage(messageName, idx) == Get(idx.messageByName, messageName)

\* resolveMessageFields(messageName, index)
resolveMessageFields(messageName, idx) ==
  LET message == lookupMessage(messageName, idx)
      Descriptor(part) == resolvePart(part, idx).descriptor
  IN IF message = <<>> THEN <<>> ELSE MapSeq(Descriptor, message[1].parts)

(***************************** render.js ************************************)

\* A page is the sequence of its elements that carry data: [tag, text, doc],
\* text being the characters between the tags.  Documentation text is known by
\* the declaration it documents, not by its characters.

El(tag, chars) == [tag |-> tag, text |-> chars, doc |-> EmptyText]

DocEl(tag, d) == [tag |-> tag, text |-> <<>>, doc |-> d]

\* esc(value): & < > " replaced by their entities
esc(value) ==
  LET Entity(c) == CASE c = "&" -> "&amp;"
                     [] c = "<" -> "&lt;"
                     [] c = ">" -> "&gt;"
                     [] c = "\"" -> "&quot;"
                     [] OTHER -> c
  IN MapSeq(Entity, value)

\* doc(text): a blockquote unless the text is empty
blockquote(d) == IF d = EmptyText THEN <<>> ELSE <<DocEl("blockquote", d)>>

\* renderFieldTable(fields): a row per field, the name marked unless minOccurs is 0
renderFieldTable(fields) ==
  LET Row(f) ==
        << El(IF f.minOccurs # <<"0">> THEN "mark" ELSE "td", esc(Str(f.name))),
           El("code", esc(f.type)),
           El("td", esc(f.minOccurs)), El("td", esc(f.maxOccurs)),
           DocEl("td", f.documentation) >>
  IN IF fields = <<>> THEN <<El("em", <<"No fields.">>)>> ELSE FlatMapSeq(Row, fields)

\* renderEnumerations(values)
renderEnumerations(values) ==
  LET Item(v) == El("code", esc(<<v>>))
  IN IF values = <<>> THEN <<El("em", <<"No values.">>)>> ELSE MapSeq(Item, values)

\* renderType(type)
renderType(type) ==
  << El("strong", esc(Str(type.name))),
     El("small", IF type.kind = "simpleType" THEN <<"enum">> ELSE <<"type">>) >>
    \o blockquote(type.documentation)
    \o (IF type.kind = "simpleType" THEN renderEnumerations(type.enumerations)
        ELSE renderFieldTable(type.fields))

\* renderTypes(types)
renderTypes(types) ==
  IF types = <<>> THEN <<El("em", <<"No types defined.">>)>>
  ELSE FlatMapSeq(renderType, types)

\* renderMessages(messages)
renderMessages(messages) ==
  LET Part(p) ==
        << El("strong", esc(Str(p.name))),
           El("code", esc(IF p.element # <<>> THEN p.element ELSE p.type)),
           El("small", IF p.element # <<>> THEN <<"(element)">> ELSE <<"(type)">>) >>
      Term(msg) == <<El("dt", esc(Str(msg.name)))>> \o FlatMapSeq(Part, msg.parts)
  IN IF messages = <<>> THEN <<El("em", <<"No messages defined.">>)>>
     ELSE FlatMapSeq(Term, messages)

\* renderOperation(op): the article of one operation
renderOperation(op) ==
  LET Fault(f) == << El("strong", esc(Str(f.name))), El("code", esc(f.message)) >>
  IN << El("article", <<"op-">> \o esc(Str(op.name))), El("h3", esc(Str(op.name))) >>
       \o blockquote(op.documentation)
       \o << El("th", <<"Direction">>), El("th", <<"Message">>),
             El("td", <<"Input">>), El("code", esc(op.input)),
             El("td", <<"Output">>), El("code", esc(op.output)) >>
       \o (IF op.faults = <<>> THEN <<>>
           ELSE <<El("h4", <<"Faults">>)>> \o FlatMapSeq(Fault, op.faults))

\* renderOperations(operations): the articles, one per operation
renderOperations(operations) ==
  IF operations = <<>> THEN << <<El("em", <<"No operations defined.">>)>> >>
  ELSE MapSeq(renderOperation, operations)

\* renderBindings(bindings)
renderBindings(bindings) ==
  LET Row(op) == << El("td", esc(Str(op.name))), El("code", esc(op.soapAction)) >>
      Details(b) ==
        << El("strong", esc(Str(b.name))),
           El("small", esc(Str(b.protocol)) \o <<" / ">> \o esc(b.style)),
           El("code", esc(b.type)), El("code", esc(b.transport)) >>
          \o FlatMapSeq(Row, b.operations)
  IN IF bindings = <<>> THEN <<El("em", <<"No bindings defined.">>)>>
     ELSE FlatMapSeq(Details, bindings)

\* renderEndpoints(endpoints)
renderEndpoints(endpoints) ==
  LET Row(ep) ==
        << El("td", esc(Str(ep.service))), El("td", esc(Str(ep.port))),
           El("code", esc(ep.binding)), El("code", esc(ep.url)) >>
  IN IF endpoints = <<>> THEN <<El("em", <<"No endpoints defined.">>)>>
     ELSE FlatMapSeq(Row, endpoints)

\* renderHeader(model)
renderHeader(m) ==
  <<El("h1", esc(Str(m.name)))>> \o blockquote(m.documentation)
    \o <<El("code", esc(m.targetNamespace))>>

\* a string is truthy unless it is undefined or empty
Truthy(value) == value # Undefined /\ value[1] # <<>>

CDN == "https://cdn.jsdelivr.net/npm/@svmukhin/edible-css@latest/dist/edible.min.css"

\* renderCss(inlineCss): the style element, or the link to the CDN
renderCss(inlineCss) ==
  IF Truthy(inlineCss) THEN El("style", inlineCss[1])
  ELSE El("link", <<"rel=\"stylesheet\"", CDN>>)

\* no options: renderHtml(model)
NoOptions == [title |-> Undefined, inlineCss |-> Undefined]

\* renderHtml(model, options): the page, part by part (the dash of the title and
\* the dot between protocol and style written in ASCII)
renderHtml(m, options) ==
  [title |-> esc(IF options.title # Undefined THEN options.title[1]
                 ELSE Str(m.name) \o <<" - WSDL Reference">>),
   css |-> renderCss(options.inlineCss),
   header |-> renderHeader(m),
   types |-> renderTypes(m.types),
   messages |-> renderMessages(m.messages),
   operations |-> renderOperations(m.operations),
   bindings |-> renderBindings(m.bindings),
   endpoints |-> renderEndpoints(m.endpoints)]

(***************************** the documentation pipeline *******************)

\* the message names resolveMessageFields is called with
MessageNames == { <<"m">>, <<"out">>, <<"gone">>, <<>> }

\* a tree from parseWsdl, and nothing built from it yet
DocInit ==
  /\ status = "idle"
  /\ visited = {}
  /\ stack = <<>>
  /\ pending = <<>>
  /\ result = <<>>
  /\ error = <<>>
  /\ fs = (RootLoc :> OtherDoc)
  /\ budget = 0
  /\ fetched = <<>>
  /\ seen = <<>>
  /\ docRaw \in SparseTrees
  /\ docModel = <<>> /\ docIndex = <<>> /\ call = <<>> /\ html = <<>>
  /\ cli = CliOff
  /\ other = NoCall

\* const model = buildModel(raw)
BuildModel ==
  /\ docModel = <<>>
  /\ docModel' = <<buildModel(docRaw)>>
  /\ UNCHANGED <<cli, other, loadVars, docRaw, docIndex, call, html>>

\* const index = buildIndex(model)
BuildIndex ==
  /\ docModel # <<>>
  /\ docIndex = <<>>
  /\ docIndex' = <<buildIndex(docModel[1])>>
  /\ UNCHANGED <<cli, other, loadVars, docRaw, docModel, call, html>>

\* resolveMessageFields(messageName, index), lines 45-47: the message is looked
\* up, and its parts are about to be mapped
ResolveMessageFields ==
  /\ docIndex # <<>>
  /\ call = <<>>
  /\ \E messageName \in MessageNames :
       LET message == lookupMessage(messageName, docIndex[1])
       IN call' = <<[messageName |-> messageName, message |-> message,
                     rest |-> IF message = <<>> THEN <<>> ELSE message[1].parts,
                     out |-> <<>>, gets |-> <<>>]>>
  /\ UNCHANGED <<cli, other, loadVars, docRaw, docModel, docIndex, html>>

\* the callback of message.parts.map on the next part
ResolvePart ==
  /\ call # <<>>
  /\ call[1].rest # <<>>
  /\ \E r \in {resolvePart(Head(call[1].rest), docIndex[1])} :
       call' = <<[call[1] EXCEPT !.rest = Tail(@),
                                 !.out = Append(@, r.descriptor),
                                 !.gets = @ \o r.gets]>>
  /\ UNCHANGED <<cli, other, loadVars, docRaw, docModel, docIndex, html>>

\* const html = renderHtml(model, {})
RenderHtml ==
  /\ docModel # <<>>
  /\ html = <<>>
  /\ call = <<>>
  /\ html' = <<renderHtml(docModel[1], NoOptions)>>
  /\ UNCHANGED <<cli, other, loadVars, docRaw, docModel, docIndex, call>>

DocNext ==
  \/ BuildModel
  \/ BuildIndex
  \/ ResolveMessageFields
  \/ ResolvePart
  \/ RenderHtml

DocSpec == DocInit /\ [][DocNext]_vars

(***************************** cli.js ***************************************)

\* the directives the documents of a command-line run may hold
CliDirectives == 1

\* the texts a stylesheet may have: '' or some rules
CssTexts == {<<>>, <<"body{}">>}

\* what fetchCss finds: the file COMPREHENSIBLE_CSS_FILE names when it is set
\* (missing, or read), else the CDN's answer (no connection, a status that is
\* not OK, or the stylesheet)
CssEnvironments ==
  {[file |-> f, cdn |-> "rejects", text |-> <<>>] : f \in {"missing"}}
    \cup {[file |-> "read", cdn |-> "rejects", text |-> t] : t \in CssTexts}
    \cup {[file |-> "unset", cdn |-> c, text |-> <<>>] : c \in {"rejects", "not ok"}}
    \cup {[file |-> "unset", cdn |-> "ok", text |-> t] : t \in CssTexts}

\* fetchCss(), lines 98-108: the string it resolves to or undefined, whether it
\* rejects, and whether it warns on stderr
fetchCss(env) ==
  IF env.file = "missing" THEN [ok |-> FALSE, css |-> Undefined, warning |-> FALSE]
  ELSE IF env.file = "read" THEN [ok |-> TRUE, css |-> <<env.text>>, warning |-> FALSE]
  ELSE IF env.cdn = "rejects" THEN [ok |-> TRUE, css |-> Undefined, warning |-> TRUE]
  ELSE IF env.cdn = "not ok" THEN [ok |-> TRUE, css |-> Undefined, warning |-> FALSE]
  ELSE [ok |-> TRUE, css |-> <<env.text>>, warning |-> FALSE]

\* the option sets of a run
CliOptions == [inlineCss : BOOLEAN, output : BOOLEAN, title : {Undefined, << <<"T">> >>}]

\* a catch that reports nothing and lets the process end normally
CaughtSilently(stage, message) == [cli EXCEPT !.pc = "exited", !.code = <<0>>, !.failed = stage]

\* program.parseAsync(...).catch, lines 59-62: the rejection of the action
\* written to stderr, process.exit(1)
Caught(stage, message) ==
  [cli EXCEPT !.pc = "exited",
              !.stderr = Append(@, <<"Error:", " ", message, "\n">>),
              !.code = <<1>>,
              !.failed = stage]

\* the command line started on the file at RootLoc; booleanAttr: the transport
\* attributes of the documents are written without a value, which the parser
\* turns into true
CliInit ==
  /\ status = "idle"
  /\ visited = {}
  /\ stack = <<>>
  /\ pending = <<>>
  /\ result = <<>>
  /\ error = <<>>
  /\ \E doc \in WsdlDocsAt(RootLoc, CliDirectives) \cup {SparseDoc(RootLoc), OtherDoc, MalformedDoc} :
       /\ fs = (RootLoc :> doc)
       /\ budget = CliDirectives - DirectiveCount(doc)
  /\ fetched = <<>>
  /\ seen = <<>>
  /\ docRaw = <<>> /\ docModel = <<>> /\ docIndex = <<>> /\ call = <<>> /\ html = <<>>
  /\ \E o \in CliOptions, b \in BOOLEAN :
       cli = [CliOff EXCEPT !.pc = "readInput", !.opts = o, !.booleanAttr = b]
  /\ other = NoCall

\* const xml = await readInput(wsdlFile): the file is read, or readFile rejects
ReadInput ==
  /\ cli.pc = "readInput"
  /\ \E found \in BOOLEAN :
       cli' = IF found THEN [cli EXCEPT !.pc = "fetchCss"] ELSE Caught("readInput", "ENOENT")
  /\ UNCHANGED <<loadVars, docVars, other>>

\* const inlineCss = opts.inlineCss ? await fetchCss() : undefined
FetchCss ==
  /\ cli.pc = "fetchCss"
  /\ IF cli.opts.inlineCss
       THEN \E env \in CssEnvironments :
              LET got == fetchCss(env)
              IN cli' = IF got.ok
                          THEN [cli EXCEPT
                                  !.pc = "loadWsdl",
                                  !.inlineCss = got.css,
                                  !.stderr = IF got.warning
                                               THEN Append(@, <<"Warning:", " ", "could not fetch edible.css", "\n">>)
                                             ELSE @]
                        ELSE Caught("fetchCss", "ENOENT")
     ELSE cli' = [cli EXCEPT !.pc = "loadWsdl"]
  /\ UNCHANGED <<loadVars, docVars, other>>

\* const raw = await loadWsdl(xml, {baseDir}): the handlers of the resolution
Resolve ==
  /\ cli.pc = "loadWsdl"
  /\ Next

\* the promise of loadWsdl rejected: the action rejects with its error
ResolveRejected ==
  /\ cli.pc = "loadWsdl"
  /\ status = "failed"
  /\ cli' = Caught("loadWsdl", error[1].kind)
  /\ UNCHANGED <<loadVars, docVars, other>>

\* lines 52-58, which run without an await: buildModel (detectProtocol throws on
\* a transport attribute that is true), renderHtml, and the one write, to the
\* file of --output (writeFileSync may throw before it has written) or to stdout
Generate ==
  /\ cli.pc = "loadWsdl"
  /\ status = "done"
  /\ IF cli.booleanAttr /\ result[1].binding # <<>>
       THEN /\ cli' = Caught("buildModel", "transport.includes is not a function")
            /\ UNCHANGED docVars
     ELSE \E m \in {buildModel(result)} :
            \E page \in {renderHtml(m, [title |-> cli.opts.title, inlineCss |-> cli.inlineCss])} :
              /\ docModel' = <<m>>
              /\ html' = <<page>>
              /\ \E written \in (IF cli.opts.output THEN BOOLEAN ELSE {TRUE}) :
                   cli' = IF ~written THEN Caught("writeFileSync", "EACCES")
                          ELSE IF cli.opts.output
                            THEN [cli EXCEPT !.pc = "exited", !.file = <<page>>, !.code = <<0>>]
                          ELSE [cli EXCEPT !.pc = "exited", !.stdout = <<page>>, !.code = <<0>>]
              /\ UNCHANGED <<docRaw, docIndex, call>>
  /\ UNCHANGED <<loadVars, other>>

CliNext ==
  \/ ReadInput
  \/ FetchCss
  \/ Resolve
  \/ ResolveRejected
  \/ Generate

CliSpec == CliInit /\ [][CliNext]_vars

(***************************** claims ***************************************)

Settled == status \in {"done", "failed"}

\* the depth cap never stops a resolution
DepthCapUnused == status = "fetching" => Len(stack) < MaxDepth

\* C1: with every fetch completing, one loadWsdl resolution over any finite
\* document graph, cyclic or with repeated imports, eventually returns or fails
C1_Settles == <>Settled

\* a resolution that met its own root again, by whichever mechanism, and returned
C1_Witness == status = "done" /\ RootLoc \in visited /\ Len(fetched) >= 2

(* ---- helpers of the claims below ---- *)

RootDoc == fs[RootLoc]

Parses(doc) == parseWsdl(doc).ok

\* the schema node in a document's text, <<>> when it has none
SchemaNodeOf(doc) ==
  IF doc.schema # <<>> THEN doc.schema
  ELSE IF doc.definitions # <<>> /\ doc.definitions[1].types # <<>>
    THEN doc.definitions[1].types[1].schema
  ELSE <<>>

\* a document's schema directives and its document imports, as written in it
SchemaDirectivesOf(doc) ==
  IF SchemaNodeOf(doc) = <<>> THEN <<>> ELSE XsdDirectives(SchemaNodeOf(doc)[1])

DocImportsOf(doc) ==
  IF doc.definitions = <<>> THEN <<>> ELSE WsdlDirectives(doc.definitions[1])

DirectivesOf(doc) == SchemaDirectivesOf(doc) \o DocImportsOf(doc)

\* the absolute locations a list of directives names from a document at `at`
Targets(dirs, at) ==
  {absoluteLocation(dirs[i].loc, baseDirOf(at)) : i \in {j \in 1..Len(dirs) : dirs[j].loc.kind # "none"}}

\* the document with its directives taken out
WithoutDirectives(doc) ==
  [doc EXCEPT !.definitions =
     <<[@[1] EXCEPT !["import"] = <<>>,
                    !.types = IF @ = <<>> THEN <<>>
                              ELSE <<[schema |-> <<[@[1].schema[1] EXCEPT !["import"] = <<>>,
                                                                         !["include"] = <<>>]>>]>>]>>]

\* how many elements of s satisfy Test
CountOf(Test(_), s) == Cardinality({i \in 1..Len(s) : Test(s[i])})

\* the model the command line builds from the returned tree
Model == buildModel(result)

(* ---- C2 ---- *)

\* every directive of the root document names the root document itself
SelfImportsOnly(doc) ==
  /\ Parses(doc)
  /\ DirectivesOf(doc) # <<>>
  /\ \A i \in 1..Len(DirectivesOf(doc)) : DirectivesOf(doc)[i].loc.kind # "none"
  /\ Targets(DirectivesOf(doc), RootLoc) = {RootLoc}

\* C2: a document whose only import target is itself resolves to the same
\* merged result, seen through buildModel, as the document without that import
C2_SelfImportChangesNothing ==
  (status = "done" /\ SelfImportsOnly(RootDoc)) =>
    Model = buildModel(loadWsdl(parseWsdl(WithoutDirectives(RootDoc)).raw,
                                RootBaseDir, RootLoc).result)

(* ---- C3 ---- *)

\* B is imported by the root document and by C, which the root imports too, all
\* three by document imports, and the three have been read
DocDiamond(B, C) ==
  /\ B # C /\ B # RootLoc /\ C # RootLoc
  /\ {B, C} \subseteq Targets(DocImportsOf(RootDoc), RootLoc)
  /\ B \in Targets(DocImportsOf(fs[C]), C)
  /\ Parses(fs[B])

DocDiamonds == {bc \in (DOMAIN fs) \X (DOMAIN fs) : DocDiamond(bc[1], bc[2])}

\* the nodes named n in a collection of the returned tree
Named(n, key) == SelectSeq(result[1][key], LAMBDA node : node.name = n)

\* where a node of a definitions collection was declared, and which one it is
OriginOf(node) == node.documentation[1]

\* C3 as stated: in a document-import diamond every name B declares appears
\* exactly once in the root's collection of its kind
C3_EachNameOfBOnce ==
  status = "done" =>
    \A bc \in DocDiamonds : \A key \in WSDL_DEF_KEYS :
      \A n \in NamesOf(fs[bc[1]].definitions[1][key]) : Len(Named(n, key)) = 1

\* C3: in a document-import diamond no declaration of B is in the root's
\* collections twice, and the nodes that bear a name B declares all come from
\* one document
C3_DeclarationsOfBOnce ==
  status = "done" =>
    \A bc \in DocDiamonds : \A key \in WSDL_DEF_KEYS :
      \A n \in NamesOf(fs[bc[1]].definitions[1][key]) :
        LET nodes == Named(n, key)
        IN \A i, j \in 1..Len(nodes) :
             /\ OriginOf(nodes[i]).at = OriginOf(nodes[j]).at
             /\ i # j => nodes[i] # nodes[j]

\* a diamond resolved, B read once, and a declaration of B in the root's messages
C3_Witness ==
  /\ status = "done"
  /\ \E bc \in DocDiamonds :
       /\ CountOf(LAMBDA loc : loc = bc[1], fetched) = 1
       /\ \E i \in 1..Len(result[1].message) : OriginOf(result[1].message[i]).at = bc[1]

(* ---- C4 ---- *)

\* S is imported by the root's schema and by the schema of T, which the root's
\* schema imports too; or the root's schema lists S twice
SchemaDiamond(S, T) ==
  /\ S # RootLoc /\ T # RootLoc
  /\ S \in Targets(SchemaDirectivesOf(RootDoc), RootLoc)
  /\ \/ /\ S # T
        /\ T \in Targets(SchemaDirectivesOf(RootDoc), RootLoc)
        /\ S \in Targets(SchemaDirectivesOf(fs[T]), T)
     \/ /\ S = T
        /\ CountOf(LAMBDA d : d.loc.kind # "none"
                              /\ absoluteLocation(d.loc, RootBaseDir) = S,
                   SchemaDirectivesOf(RootDoc)) >= 2
  /\ SchemaNodeOf(fs[S]) # <<>>

SchemaDiamonds == {st \in (DOMAIN fs) \X (DOMAIN fs) : SchemaDiamond(st[1], st[2])}

\* the names a schema node declares
DeclaredIn(schema) ==
  UNION {NamesOf(arr(schema[key])) : key \in XSD_TYPE_KEYS}

\* C4 as stated: in a schema-import diamond the model has exactly one TypeDef
\* for each name S declares
C4_OneTypeDefPerName ==
  status = "done" =>
    \A st \in SchemaDiamonds : \A n \in DeclaredIn(SchemaNodeOf(fs[st[1]])[1]) :
      CountOf(LAMBDA t : t.name = n, Model.types) = 1

\* C4: in a schema-import diamond the model has each TypeDef that S's own
\* declarations yield exactly once
C4_EachTypeDefOfSOnce ==
  status = "done" =>
    \A st \in SchemaDiamonds :
      LET own == extractTypes(SchemaNodeOf(fs[st[1]])[1])
      IN \A k \in 1..Len(own) : CountOf(LAMBDA t : t = own[k], Model.types) = 1

\* a schema diamond resolved with S read once and its TypeDefs in the model
C4_Witness ==
  /\ status = "done"
  /\ \E st \in SchemaDiamonds :
       /\ st[1] # st[2]
       /\ CountOf(LAMBDA loc : loc = st[1], fetched) = 1
       /\ \E k \in 1..Len(Model.types) : Model.types[k].documentation.at = st[1]

(* ---- C5 ---- *)

NoDirectives(doc) == Parses(doc) /\ DirectivesOf(doc) = <<>>

\* C5: for a root document without import or include declarations loadWsdl
\* issues no fetch and returns a tree that buildModel maps to what it maps the
\* direct parse of the text to
C5_NoImportsNoOp ==
  (status # "idle" /\ NoDirectives(RootDoc)) =>
    /\ status = "done"
    /\ fetched = <<>>
    /\ Model = buildModel(parseWsdl(RootDoc).raw)

\* such a document returned, and ensureSchema has put a schema node into its tree
C5_Witness ==
  /\ status = "done"
  /\ NoDirectives(RootDoc)
  /\ parseWsdl(RootDoc).raw[1].types = <<>>
  /\ result[1].types # <<>>
  /\ Model.messages # <<>>

(* ---- C6 ---- *)

FetchErrors == {"http status", "fetch failed", "ENOENT"}

\* C6: when a fetch fails, loadWsdl rejects with an error that carries the
\* location that fetch was for, and resolves with no tree
C6_FetchFailureNamesLocation ==
  (status = "failed" /\ error[1].kind \in FetchErrors) =>
    /\ error[1].loc = Last(fetched)
    /\ result = <<>>

(* ---- C7 ---- *)

\* C7: a resolution that read a malformed document, or one without the root
\* element its import expects, does not return a tree
C7_BadDocumentFails ==
  status = "done" => \A loc \in DOMAIN fs : fs[loc] \notin {OtherDoc, MalformedDoc}

(* ---- C8 ---- *)

\* loc joined to the location of the document it is written in
JoinedTo(at, loc) ==
  [kind |-> at.kind, segs |-> normalize(Front(at.segs) \o loc.segs, <<>>)]

\* the directive the innermost import loop is at
CurrentDirective ==
  LET top == TopOf(Machine)
  IN IF top.fn = "resolveXsdImports" THEN XsdDirectives(top.node)[top.i]
     ELSE WsdlDirectives(top.node)[top.i]

\* C8: the fetch for a relative location written in an imported document goes
\* to that location joined to the document's own location, path or URL
C8_RelativeToContainingDocument ==
  (status = "fetching" /\ pending[1].text = <<>>
     /\ TopOf(Machine).at # RootLoc /\ CurrentDirective.loc.kind = "rel") =>
    pending[1].loc = JoinedTo(TopOf(Machine).at, CurrentDirective.loc)

(* ---- C9 ---- *)

\* the directives in the returned tree
ResultDirectives == XsdDirectives(SchemaIn(result[1])) \o WsdlDirectives(result[1])

\* C9 as stated: every directive in the returned tree is resolved, that is, it
\* has a location and the document there has been read
C9_NoUnresolvedDirective ==
  status = "done" =>
    \A i \in 1..Len(ResultDirectives) :
      /\ ResultDirectives[i].loc.kind # "none"
      /\ absoluteLocation(ResultDirectives[i].loc, RootBaseDir) \in DOMAIN fs

\* C9: the returned tree has the root document's own directives and no other;
\* the location of each that has one is in the visited set and has been read
C9_OnlyRootDirectivesAllVisited ==
  status = "done" =>
    /\ ResultDirectives = DirectivesOf(RootDoc)
    /\ Targets(ResultDirectives, RootLoc) \subseteq (visited \cap DOMAIN fs)

\* a tree returned with a resolved directive and one without a location in
\* it, after a document with directives of its own was merged
C9_Witness ==
  /\ status = "done"
  /\ \E i, j \in 1..Len(ResultDirectives) :
       ResultDirectives[i].loc.kind = "none" /\ ResultDirectives[j].loc.kind # "none"
  /\ \E loc \in DOMAIN fs \ {RootLoc} : DirectivesOf(fs[loc]) # <<>>

(* ---- C10 ---- *)

MessagesIn(doc) == IF doc.definitions = <<>> THEN <<>> ELSE arr(doc.definitions[1].message)

\* C10 as stated: no two messages of the returned tree share a name
C10_MessageNamesUnique ==
  status = "done" =>
    \A i, j \in 1..Len(result[1].message) :
      i # j => result[1].message[i].name # result[1].message[j].name

\* the first document, in the order resolveWsdl parsed them, to declare message n
FirstDeclaring(n) ==
  seen[CHOOSE k \in 1..Len(seen) :
         /\ n \in NamesOf(MessagesIn(fs[seen[k]]))
         /\ \A j \in 1..(k - 1) : n \notin NamesOf(MessagesIn(fs[seen[j]]))]

\* C10: the messages of the returned tree that bear a name are those the first
\* document to declare the name declares under it, so two of them share a name
\* only where that one document declares the name twice
C10_FirstSeenKept ==
  status = "done" =>
    \A n \in NamesOf(result[1].message) :
      Named(n, "message")
        = SelectSeq(MessagesIn(fs[FirstDeclaring(n)]), LAMBDA msg : msg.name = n)

\* three documents merged, a later one's message dropped for an earlier one's
C10_Witness ==
  /\ status = "done"
  /\ Cardinality({seen[k] : k \in 1..Len(seen)}) >= 3
  /\ Len(Named("m1", "message")) = 1
  /\ OriginOf(Named("m1", "message")[1]).at = RootLoc

(***************************** claims: resolve.js ***************************)

\* resolveMessageFields has returned: the lookup failed, or every part is mapped
Returned == call # <<>> /\ call[1].rest = <<>>

\* the keys of the index in use
TypeNames == DOMAIN docIndex[1].typeByName
MessageKeys == DOMAIN docIndex[1].messageByName

\* the parts of the message the call found
CallParts == IF call[1].message = <<>> THEN <<>> ELSE call[1].message[1].parts

\* C11: called with a name that is no key of messageByName, resolveMessageFields
\* returns the empty sequence at once, whatever the index holds.
C11_UnknownMessageEmpty ==
  (call # <<>> /\ call[1].messageName \notin MessageKeys) =>
    /\ Returned
    /\ call[1].out = <<>>
    /\ resolveMessageFields(call[1].messageName, docIndex[1]) = <<>>

\* an unknown name was asked of an index that has messages with parts
C11_Witness ==
  /\ Returned
  /\ call[1].messageName \notin MessageKeys
  /\ \E k \in MessageKeys : docIndex[1].messageByName[k].parts # <<>>

\* C12: a part of a known message whose referenced name is no key of typeByName
\* gets a descriptor with empty fields and empty enumerations, and the result
\* has one descriptor per part.
C12_DanglingTypeEmpty ==
  (call # <<>> /\ call[1].message # <<>>) =>
    /\ Returned => Len(call[1].out) = Len(CallParts)
    /\ \A i \in 1..Len(call[1].out) :
         refName(CallParts[i]) \notin TypeNames =>
           call[1].out[i].fields = <<>> /\ call[1].out[i].enumerations = <<>>

\* a part refers to an unknown type in an index that has types with fields
C12_Witness ==
  /\ Returned
  /\ call[1].message # <<>>
  /\ \E i \in 1..Len(CallParts) : refName(CallParts[i]) \notin TypeNames
  /\ \E k \in TypeNames : docIndex[1].typeByName[k].fields # <<>>

\* C13: for a known message the result has one descriptor per part, in part
\* order: partName is the part's name, typeName the element reference when there
\* is one and the type reference otherwise, fields and enumerations those of the
\* TypeDef indexed under typeName.
C13_DescriptorPerPart ==
  (Returned /\ call[1].message # <<>>) =>
    /\ Len(call[1].out) = Len(CallParts)
    /\ call[1].out = resolveMessageFields(call[1].messageName, docIndex[1])
    /\ \A i \in 1..Len(CallParts) :
         LET part == CallParts[i]
             d == call[1].out[i]
         IN /\ d.partName = part.name
            /\ d.typeName = IF part.element # <<>> THEN part.element ELSE part.type
            /\ d.typeName \in TypeNames =>
                 /\ d.fields = docIndex[1].typeByName[d.typeName].fields
                 /\ d.enumerations = docIndex[1].typeByName[d.typeName].enumerations

\* two parts, the first with both references, the second with a type reference
\* only, both resolved to types with fields
C13_Witness ==
  /\ Returned
  /\ Len(CallParts) = 2
  /\ CallParts[1].element # <<>> /\ CallParts[1].type # <<>>
  /\ CallParts[2].element = <<>> /\ CallParts[2].type # <<>>
  /\ \A i \in 1..2 : call[1].out[i].fields # <<>>

\* C14: resolveMessageFields ends after as many steps as the message has parts:
\* every step maps one part and reads typeByName once, with the part's reference
\* and never with the type of a field it returns, also when the types refer to
\* themselves or to each other.
C14_OneLookupPerPart ==
  call # <<>> =>
    /\ Len(call[1].gets) + Len(call[1].rest) = Len(CallParts)
    /\ Len(call[1].out) = Len(call[1].gets)
    /\ \A i \in 1..Len(call[1].gets) : call[1].gets[i] = call[1].out[i].typeName
    /\ Returned \/ ENABLED ResolvePart

\* a part resolved to a type whose field refers to a type whose field refers back
C14_Witness ==
  /\ Returned
  /\ \E i \in 1..Len(call[1].out) :
       \E j \in 1..Len(call[1].out[i].fields) :
         LET t == call[1].out[i].fields[j].type
         IN /\ t \in TypeNames
            /\ \E l \in 1..Len(docIndex[1].typeByName[t].fields) :
                 docIndex[1].typeByName[t].fields[l].type = call[1].out[i].typeName

(***************************** claims: model.js *****************************)

\* the definitions node handed to buildModel, and its schema node if it has one
Defs == docRaw[1]
SchemaNodes ==
  IF Defs.types = <<>> THEN <<>> ELSE Defs.types[1].schema

Built == docModel # <<>>

\* C15: every TypeDef has a fields and an enumerations sequence; the one its
\* kind does not use is empty: fields for a simpleType, enumerations for an
\* element-wrapped type and for a complexType.
C15_FieldsOrEnumerationsByKind ==
  Built =>
    \A i \in 1..Len(docModel[1].types) :
      LET t == docModel[1].types[i]
      IN /\ {"fields", "enumerations"} \subseteq DOMAIN t
         /\ DOMAIN t.fields = 1..Len(t.fields)
         /\ DOMAIN t.enumerations = 1..Len(t.enumerations)
         /\ t.kind \in {"element", "complexType", "simpleType"}
         /\ t.kind = "simpleType" => t.fields = <<>>
         /\ t.kind \in {"element", "complexType"} => t.enumerations = <<>>

\* TypeDefs of the three kinds, with and without content
C15_Witness ==
  /\ Built
  /\ \E i, j, k, l \in 1..Len(docModel[1].types) :
       /\ docModel[1].types[i].kind = "element" /\ docModel[1].types[i].fields # <<>>
       /\ docModel[1].types[j].kind = "complexType" /\ docModel[1].types[j].fields = <<>>
       /\ docModel[1].types[k].kind = "simpleType" /\ docModel[1].types[k].enumerations # <<>>
       /\ docModel[1].types[l].kind = "simpleType" /\ docModel[1].types[l].enumerations = <<>>

\* the message declarations and the Messages made of them, side by side
MessagePairs ==
  { <<Defs.message[i], docModel[1].messages[i]>> : i \in 1..Len(Defs.message) }

\* the parts of a declaration and the Parts made of them, side by side
PartPairs(pair) ==
  { <<pair[1].part[j], pair[2].parts[j]>> : j \in 1..Len(pair[1].part) }

Populated(ref) == ref # <<>>

\* a reference without a namespace prefix
Stripped(ref) == \A i \in 1..Len(ref) : ref[i] # ":"

\* C16 as stated: one Message per declaration, one Part per part child, and in
\* every Part exactly one of the element reference and the type reference
\* populated, without namespace prefix.
C16_ElementXorType ==
  Built =>
    /\ Len(docModel[1].messages) = Len(Defs.message)
    /\ \A pair \in MessagePairs :
         /\ Len(pair[2].parts) = Len(pair[1].part)
         /\ \A pp \in PartPairs(pair) :
              /\ Populated(pp[2].element) # Populated(pp[2].type)
              /\ Stripped(pp[2].element) /\ Stripped(pp[2].type)

\* C16, amended: one Message per declaration and one Part per part child, in
\* order; a Part's element reference is the part's element attribute without
\* its prefix and its type reference the part's type attribute without its
\* prefix, each empty when the attribute is absent, so that exactly one of them
\* is populated when the part has exactly one of the two attributes.
C16_PartMirrorsAttributes ==
  Built =>
    /\ Len(docModel[1].messages) = Len(Defs.message)
    /\ \A pair \in MessagePairs :
         /\ pair[2].name = pair[1].name
         /\ Len(pair[2].parts) = Len(pair[1].part)
         /\ \A pp \in PartPairs(pair) :
              /\ pp[2].name = pp[1].name
              /\ pp[2].element = stripNs(pp[1].element)
              /\ pp[2].type = stripNs(pp[1].type)
              /\ Populated(pp[2].element) = Populated(pp[1].element)
              /\ Populated(pp[2].type) = Populated(pp[1].type)
              /\ Stripped(pp[2].element) /\ Stripped(pp[2].type)
              /\ (Populated(pp[1].element) # Populated(pp[1].type))
                   => (Populated(pp[2].element) # Populated(pp[2].type))

\* a message with a part that has both attributes and a part that has one
C16_Witness ==
  /\ Built
  /\ \E pair \in MessagePairs :
       /\ \E pp \in PartPairs(pair) : Populated(pp[1].element) /\ Populated(pp[1].type)
       /\ \E pp \in PartPairs(pair) : Populated(pp[1].element) # Populated(pp[1].type)

\* the binding nodes and the bindings made of them, side by side
BindingPairs ==
  { <<Defs.binding[i], docModel[1].bindings[i]>> : i \in 1..Len(Defs.binding) }

\* the style attribute of the child of a binding node that is called binding too
NestedStyle(b) == IF b.binding = <<>> THEN <<>> ELSE b.binding[1].style

\* C17: a binding's style is the style of the node's first binding child,
\* whatever style the node itself bears, and "document" when there is no such
\* child or the child has no style.
C17_StyleOfNestedBinding ==
  Built =>
    /\ Len(docModel[1].bindings) = Len(Defs.binding)
    /\ \A pair \in BindingPairs :
         pair[2].style = IF NestedStyle(pair[1]) = <<>> THEN <<"document">>
                         ELSE NestedStyle(pair[1])

\* a node with a style of its own whose child has none, and a child with a style
C17_Witness ==
  /\ Built
  /\ \E p, q \in BindingPairs :
       /\ p[1].style # <<>> /\ p[1].binding # <<>> /\ NestedStyle(p[1]) = <<>>
       /\ q[1].style = <<>> /\ NestedStyle(q[1]) = <<"rpc">>

\* no text, the string ''
NoText(d) == d = EmptyText

RECURSIVE Count(_, _)
Count(s, keep) ==
  IF s = <<>> THEN 0
  ELSE (IF Head(s) \in keep THEN 1 ELSE 0) + Count(Tail(s), keep)

RangeOf(s) == { s[i] : i \in 1..Len(s) }

\* the declarations of the schema node that the types are said to be made of
WrappingElements ==
  { el \in RangeOf(SchemaNodes[1].element) : el.complexType # <<>> }
NamedComplexTypes ==
  { ct \in RangeOf(SchemaNodes[1].complexType) : ct.name # "" }
EnumeratingSimpleTypes ==
  { st \in RangeOf(SchemaNodes[1].simpleType) :
      /\ st.name # ""
      /\ st.restriction # <<>>
      /\ st.restriction[1].enumeration # <<>> }

TypesOfKind(kind) == SelectSeq(docModel[1].types, LAMBDA t : t.kind = kind)

\* C19 as stated: the types are one TypeDef per top-level element that wraps an
\* inline complexType, one per named complexType and one per named simpleType
\* with an enumeration restriction, whose values keep their declared order.
C19_TypesPerDeclaration ==
  (Built /\ SchemaNodes # <<>>) =>
    /\ Len(TypesOfKind("element")) = Count(SchemaNodes[1].element, WrappingElements)
    /\ \A el \in WrappingElements :
         \E i \in 1..Len(docModel[1].types) :
           docModel[1].types[i].kind = "element" /\ docModel[1].types[i].name = el.name
    /\ Len(TypesOfKind("complexType")) = Count(SchemaNodes[1].complexType, NamedComplexTypes)
    /\ Len(TypesOfKind("simpleType")) = Count(SchemaNodes[1].simpleType, EnumeratingSimpleTypes)
    /\ \A st \in EnumeratingSimpleTypes :
         \E i \in 1..Len(docModel[1].types) :
           /\ docModel[1].types[i].kind = "simpleType"
           /\ docModel[1].types[i].name = st.name
           /\ docModel[1].types[i].enumerations
                = [k \in 1..Len(st.restriction[1].enumeration) |->
                     st.restriction[1].enumeration[k].value]

(***************************** claims: render.js ****************************)

\* the cells that show a field: its name, marked when required, its type and
\* its documentation, as renderFieldTable writes them
FieldCells(f) ==
  { El(IF f.minOccurs # <<"0">> THEN "mark" ELSE "td", esc(Str(f.name))),
    El("code", esc(f.type)),
    DocEl("td", f.documentation) }

\* the fields the messages of an operation resolve to
FieldsOfMessage(messageName) ==
  UNION { RangeOf(d.fields) :
            d \in RangeOf(resolveMessageFields(messageName, buildIndex(docModel[1]))) }

\* C20 as stated: the article of every operation shows the fields that its
\* input and its output message resolve to: name (marked when required), type
\* and documentation.
C20_OperationsExpandFields ==
  html # <<>> =>
    \A i \in 1..Len(docModel[1].operations) :
      LET op == docModel[1].operations[i]
          article == RangeOf(html[1].operations[i])
      IN \A f \in FieldsOfMessage(op.input) \cup FieldsOfMessage(op.output) :
           FieldCells(f) \subseteq article

(***************************** claims: load.js ******************************)

(* ---- C23 ---- *)

\* the directives the loop of a frame walks
DirsOf(frame) ==
  IF frame.fn = "resolveXsdImports" THEN XsdDirectives(frame.node)
  ELSE WsdlDirectives(frame.node)

\* the positions of the import loops among the pending calls
LoopFrames == {k \in 1..Len(stack) : stack[k].fn # "resolveWsdl"}

\* the location the loop of stack[k] is suspended at
SuspendedAt(k) ==
  absoluteLocation(DirsOf(stack[k])[stack[k].i].loc, stack[k].baseDir)

\* C23: at most one fetch is outstanding, and while it is, every pending import
\* loop stands at a directive it has not finished: the innermost at the one the
\* fetch is for, each enclosing one at the one whose document is being resolved
C23_OneFetchAtATime ==
  /\ Len(pending) <= 1
  /\ pending # <<>> <=> status = "fetching"
  /\ status = "fetching" =>
       \A k \in LoopFrames :
         /\ stack[k].i <= Len(DirsOf(stack[k]))
         /\ SuspendedAt(k) = IF k = Len(stack) THEN pending[1].loc ELSE stack[k + 1].at

\* a fetch outstanding two imports deep, with a directive of an enclosing
\* document still to come
C23_Witness ==
  /\ status = "fetching"
  /\ Cardinality(LoopFrames) >= 2
  /\ Len(fetched) >= 2
  /\ \E k \in LoopFrames : k < Len(stack) /\ stack[k].i < Len(DirsOf(stack[k]))

(* ---- C24 ---- *)

\* C24: once a fetch or a parse has failed the resolution is over: no call is
\* pending, no read is outstanding, no tree is returned, no handler can run
\* again, and the location the failure occurred at was fetched only once
C24_FailureEndsResolution ==
  error # <<>> =>
    /\ status = "failed"
    /\ stack = <<>>
    /\ pending = <<>>
    /\ result = <<>>
    /\ ~ENABLED Next
    /\ fetched # <<>> => CountOf(LAMBDA loc : loc = Last(fetched), fetched) = 1

\* a failure two imports deep, with an import of the root never examined
C24_Witness ==
  /\ status = "failed"
  /\ error # <<>>
  /\ Len(fetched) >= 2
  /\ Targets(DirectivesOf(RootDoc), RootLoc) \ (visited \cup {RootLoc}) # {}

(* ---- C27 ---- *)

\* C27: no absolute location is handed to fetchSource twice in one resolution,
\* and every location handed to it, the outstanding one included, is in the
\* visited set from the moment the fetch is issued
C27_FetchedOnceAlreadyVisited ==
  /\ \A i, j \in 1..Len(fetched) : fetched[i] = fetched[j] => i = j
  /\ \A i \in 1..Len(fetched) : fetched[i] \in visited
  /\ pending # <<>> => pending[1].loc = Last(fetched) /\ pending[1].loc \in visited

\* a location that a schema import and a document import both name, in two
\* documents, fetched once in a resolution that returned
C27_Witness ==
  /\ status = "done"
  /\ \E loc \in DOMAIN fs \ {RootLoc} : \E d, e \in DOMAIN fs :
       /\ d # e
       /\ loc \in Targets(SchemaDirectivesOf(fs[d]), d)
       /\ loc \in Targets(DocImportsOf(fs[e]), e)
       /\ CountOf(LAMBDA l : l = loc, fetched) = 1

(* ---- C26 ---- *)

\* the definitions nodes of the resolution: those of the documents read, those
\* the pending resolveWsdl calls are merging into, and the one returned
DefinitionsNodes ==
  {parseWsdl(fs[loc]).raw[1] : loc \in {l \in DOMAIN fs : Parses(fs[l])}}
    \cup {stack[k].node : k \in {j \in 1..Len(stack) : stack[j].fn # "resolveXsdImports"}}
    \cup {result[k] : k \in 1..Len(result)}

\* C26: mergeWsdlDefs(dest, src) keeps dest's entries of each of the four kinds
\* as they are and where they are, appends after them src's entries of that
\* kind whose name no entry of dest of that kind bears, in src's order, and
\* leaves every other child of dest alone
C26_MergeKeepsDestination ==
  \A dest, src \in DefinitionsNodes :
    LET merged == mergeWsdlDefs(dest, src)
    IN \A key \in DOMAIN dest :
         IF key \in WSDL_DEF_KEYS
           THEN LET old == arr(dest[key])
                    incoming == arr(src[key])
                IN /\ Len(merged[key]) >= Len(old)
                   /\ \A i \in 1..Len(old) : merged[key][i] = old[i]
                   /\ SubSeq(merged[key], Len(old) + 1, Len(merged[key]))
                        = SelectSeq(incoming,
                                    LAMBDA node : \A i \in 1..Len(old) : old[i].name # node.name)
         ELSE merged[key] = dest[key]

\* a resolution returned in which an imported document's message was dropped
\* for the root's of the same name and another of its messages was appended
C26_Witness ==
  /\ status = "done"
  /\ \E loc \in DOMAIN fs \ {RootLoc} :
       /\ loc \in {seen[k] : k \in 1..Len(seen)}
       /\ \E i, j \in 1..Len(MessagesIn(fs[loc])) :
            LET dropped == MessagesIn(fs[loc])[i]
                kept == MessagesIn(fs[loc])[j]
            IN /\ dropped.name \in NamesOf(MessagesIn(RootDoc))
               /\ \A k \in 1..Len(result[1].message) : result[1].message[k] # dropped
               /\ \E k \in 1..Len(result[1].message) :
                    k > Len(MessagesIn(RootDoc)) /\ result[1].message[k] = kept

(* ---- C28 ---- *)

\* the locations reachable from those of S through schema directives alone
RECURSIVE SchemaReach(_)
SchemaReach(S) ==
  LET further == S \cup UNION {Targets(SchemaDirectivesOf(fs[loc]), loc) : loc \in S \cap DOMAIN fs}
  IN IF further = S THEN S ELSE SchemaReach(further)

\* the documents the declarations of a schema node were written in
SchemaOrigins(schema) ==
  UNION {{schema[key][i].annotation[1].documentation[1].at : i \in 1..Len(schema[key])} :
           key \in XSD_TYPE_KEYS \ {"group"}}
    \cup {schema.group[i].documentation[1].at : i \in 1..Len(schema.group)}

\* the pending resolveWsdlImports calls that are still pending after the step
StillImporting ==
  {k \in 1..Len(stack) : /\ stack[k].fn = "resolveWsdlImports"
                         /\ k <= Len(stack')
                         /\ stack'[k].fn = "resolveWsdlImports"
                         /\ stack'[k].at = stack[k].at}

\* C28: while a document resolves its document imports its schema stays as it
\* is, up to the tree loadWsdl returns, and the declarations of the returned
\* schema all come from documents the root reaches through schema directives
C28_DocumentImportKeepsSchema ==
  /\ [](status = "done" => SchemaOrigins(SchemaIn(result[1])) \subseteq SchemaReach({RootLoc}))
  /\ [][/\ \A k \in StillImporting : SchemaIn(stack'[k].node) = SchemaIn(stack[k].node)
        /\ (stack # <<>> /\ stack[2].fn = "resolveWsdlImports" /\ status' = "done") =>
             SchemaIn(result'[1]) = SchemaIn(stack[2].node)]_vars

\* a resolution returned after a document import of a document that has a schema
\* import of its own: its messages are in the tree, its declarations and those
\* of the schema it imports are not
C28_Witness ==
  /\ status = "done"
  /\ \E loc \in {seen[k] : k \in 1..Len(seen)} \ SchemaReach({RootLoc}) :
       /\ \E k \in 1..Len(result[1].message) : OriginOf(result[1].message[k]).at = loc
       /\ \E inner \in Targets(SchemaDirectivesOf(fs[loc]), loc) \ SchemaReach({RootLoc}) :
            /\ inner \in DOMAIN fs
            /\ SchemaNodeOf(fs[inner]) # <<>>
            /\ CountOf(LAMBDA l : l = inner, fetched) = 1

(* ---- C29 ---- *)

\* the locations reachable from those of S through document imports alone
RECURSIVE DocReach(_)
DocReach(S) ==
  LET further == S \cup UNION {Targets(DocImportsOf(fs[loc]), loc) : loc \in S \cap DOMAIN fs}
  IN IF further = S THEN S ELSE DocReach(further)

\* C29: the tree loadWsdl returns has a message of every name that a document
\* reachable from the root through document imports declares
C29_ReachableMessagesPresent ==
  status = "done" =>
    \A loc \in DocReach({RootLoc}) \cap DOMAIN fs :
      NamesOf(MessagesIn(fs[loc])) \subseteq NamesOf(result[1].message)

(***************************** claims: the index ****************************)

(* ---- C30 ---- *)

\* the positions in s of the entities named by key
PositionsOf(s, key) == {i \in 1..Len(s) : Str(s[i].name) = key}

\* the entity of s that comes last among those named by key
LastNamed(s, key) == s[CHOOSE i \in PositionsOf(s, key) : \A j \in PositionsOf(s, key) : j <= i]

\* C30: the index has one entry for each name the model's types bear, and one
\* for each name its messages bear, each entry being the last entity of that
\* name in the model's sequence; resolveMessageFields takes the parts of that
\* last message and the fields and enumerations of that last TypeDef
C30_LastDefinitionWins ==
  docIndex # <<>> =>
    /\ TypeNames = {Str(docModel[1].types[i].name) : i \in 1..Len(docModel[1].types)}
    /\ MessageKeys = {Str(docModel[1].messages[i].name) : i \in 1..Len(docModel[1].messages)}
    /\ \A key \in TypeNames : docIndex[1].typeByName[key] = LastNamed(docModel[1].types, key)
    /\ \A key \in MessageKeys :
         docIndex[1].messageByName[key] = LastNamed(docModel[1].messages, key)
    /\ (call # <<>> /\ call[1].messageName \in MessageKeys) =>
         /\ CallParts = LastNamed(docModel[1].messages, call[1].messageName).parts
         /\ \A i \in 1..Len(call[1].out) :
              call[1].out[i].typeName \in TypeNames =>
                LET last == LastNamed(docModel[1].types, call[1].out[i].typeName)
                IN /\ call[1].out[i].fields = last.fields
                   /\ call[1].out[i].enumerations = last.enumerations

\* a part resolved to a type that the model has twice under one name with
\* different fields: the descriptor has the fields of the second
C30_Witness ==
  /\ Returned
  /\ call[1].message # <<>>
  /\ \E i \in 1..Len(call[1].out) :
       LET at == PositionsOf(docModel[1].types, call[1].out[i].typeName)
       IN \E j, k \in at :
            /\ j < k
            /\ docModel[1].types[j].fields # docModel[1].types[k].fields
            /\ call[1].out[i].fields = docModel[1].types[k].fields

(***************************** claims: cli.js *******************************)

Exited == cli.pc = "exited"

\* the page the run wrote, to the file or to stdout
Written == cli.file \o cli.stdout

(* ---- C21 ---- *)

\* C21: a run with --inline-css that exits with code 0 has written a page whose
\* stylesheet is a style element, and no link to the CDN
C21_InlineCssSelfContained ==
  (Exited /\ cli.opts.inlineCss /\ cli.code = <<0>>) =>
    /\ Written # <<>>
    /\ \A k \in 1..Len(Written) : Written[k].css.tag = "style"

(* ---- C22 ---- *)

\* the steps of the action that can throw or reject
Stages == {"readInput", "fetchCss", "loadWsdl", "buildModel", "writeFileSync"}

\* C22: nothing is written to stdout or to the file before the run ends; a run
\* in which a step failed ends with a code other than 0, a last stderr line
\* that starts with "Error:", and nothing on stdout or in the file; a run with
\* --output in which no step failed ends with code 0, the page it rendered in
\* the file and nothing on stdout
C22_FailureWritesErrorOnly ==
  /\ ~Exited => Written = <<>> /\ cli.code = <<>>
  /\ (status = "failed" /\ cli.pc # "off") => Written = <<>>
  /\ Exited =>
       /\ cli.failed \in Stages =>
            /\ cli.code # <<0>>
            /\ cli.stderr # <<>> /\ Last(cli.stderr)[1] = "Error:"
            /\ Written = <<>>
       /\ cli.failed \notin Stages =>
            /\ cli.code = <<0>>
            /\ html # <<>> /\ Written = html
            /\ cli.opts.output => cli.file = html /\ cli.stdout = <<>>

\* a run with --output and --inline-css whose import resolution failed after the
\* stylesheet could not be fetched: a warning, then the error, and no file
C22_Witness ==
  /\ Exited
  /\ cli.failed = "loadWsdl"
  /\ cli.opts.output
  /\ fetched # <<>>
  /\ Len(cli.stderr) = 2
  /\ cli.file = <<>>

(***************************** claims: two calls ****************************)

(* ---- C25 ---- *)

\* the root document resolved by one call alone
Alone == Complete(loadWsdl(parseWsdl(RootDoc).raw, RootBaseDir, RootLoc))

\* C25: of two calls in one process, made one after the other or taking turns
\* at their awaits, each has in its visited set the locations it fetched itself
\* and no other, and each that returns has fetched the locations, in the order,
\* and returns the tree, of a call that runs alone
C25_CallsDoNotShareVisited ==
  \A c \in {Machine, other.machine} :
    /\ c.visited = RangeOf(c.fetched)
    /\ c.status = "done" => c.result = Alone.result /\ c.fetched = Alone.fetched

\* a call has returned after two fetches while the other call, which has visited
\* one of these locations, is awaiting a read
C25_Witness ==
  /\ status = "done"
  /\ Len(fetched) >= 2
  /\ other.machine.status = "fetching"
  /\ other.machine.visited \cap visited # {}
  /\ Len(result[1].message) > Len(MessagesIn(RootDoc))
====
